---- MODULE Spec2Model ----
(***************************************************************************)
(* plexamp-tui: the Bubble Tea event loop of the terminal client.          *)
(*                                                                         *)
(* The Go value `model` is the record m; Update(m, msg) is modelled as an  *)
(* operator from a model and a message to the new model and the commands   *)
(* it returns.  Commands run detached; a command in flight is a record of  *)
(* what its closure captured, and its completion delivers one message.     *)
(***************************************************************************)
EXTENDS Integers, Sequences, FiniteSets, TLC

VARIABLES
    m,          \* the model value held by the Bubble Tea runtime
    inflight,   \* commands returned by Update that have not completed yet
    ticks,      \* tea.Tick timers armed and not fired yet
    lastMsg,    \* the message handled by the latest Update
    lastCmds,   \* the commands returned by the latest Update
    lastHttp,   \* requests started directly (go http.Get) by the latest Update
    store,      \* the settings: config.json, and the favorites file or table
    running,    \* FALSE once Update has returned tea.Quit
    nKeys       \* key events delivered so far

vars == <<m, inflight, ticks, lastMsg, lastCmds, lastHttp, store, running, nKeys>>

-----------------------------------------------------------------------------
(* Bounds of the model *)

\* key events the operator presses in one run
MaxKeys == 2
\* commands that may be in flight at once
MaxInflight == 2
\* the largest timeline epoch a model value or a poll result carries when
\* Update is checked as a function
MaxEpoch == 1
\* rows the favorites table holds when its manager is called directly
MaxRows == 4
\* calls of ApplyShuffle in a row on one URL
MaxCalls == 3
\* saves of a settings file in a row
MaxSaves == 2
\* key events the operator presses in one browse list
MaxPicks == 3
\* libraries a server's list holds when Tab cycles through it
MaxLibs == 3
\* presses of Tab in a row
MaxCycles == 3

-----------------------------------------------------------------------------
(* Program constants *)

VolumeStep == 5
VolumeMax == 100

-----------------------------------------------------------------------------
(* Data the environment can deliver *)

LibDefault == [Key |-> "15", Title |-> "SELECT_LIBRARY", Type |-> "artist"]
LibMusic1 == [Key |-> "1", Title |-> "Music", Type |-> "artist"]
LibJazz2 == [Key |-> "2", Title |-> "Jazz", Type |-> "artist"]
LibMusic3 == [Key |-> "3", Title |-> "Music", Type |-> "artist"]

\* what FetchLibrary can return for a server (the empty list also stands for
\* the nil slice left by a failed fetch)
LibraryOutcomes == {<<>>, <<LibMusic1, LibJazz2>>, <<LibMusic3>>}

NoItem == [title |-> "", clientIdentifier |-> "", address |-> "", port |-> ""]
SrvA == [title |-> "Attic", clientIdentifier |-> "srvA", address |-> "192.168.1.10", port |-> "32400"]
SrvB == [title |-> "Barn", clientIdentifier |-> "srvB", address |-> "192.168.1.11", port |-> "32400"]
PlA == [title |-> "Den", clientIdentifier |-> "plA", address |-> "192.168.1.50", port |-> "32500"]
PlB == [title |-> "Hall", clientIdentifier |-> "plB", address |-> "192.168.1.51", port |-> "32500"]

ServerOutcomes == {<<>>, <<SrvA, SrvB>>}
PlayerOutcomes == {<<>>, <<PlA, PlB>>}

ArtistOutcomes == {<<>>, <<[Title |-> "Pixies", RatingKey |-> "101"],
                          [Title |-> "Wire", RatingKey |-> "102"]>>}
AlbumOutcomes == {<<>>, <<[Title |-> "Doolittle", ParentTitle |-> "Pixies", Year |-> "1989", RatingKey |-> "201"]>>}
PlaylistOutcomes == {<<>>, <<[Title |-> "Morning", RatingKey |-> "301"]>>}

\* what a timeline poll can report
NeutralSnapshot ==
    [TrackText |-> "", IsPlaying |-> FALSE, Duration |-> 0, Position |-> 0, Volume |-> 0]
\* what the player's timeline endpoint answers: the request, the read of the
\* body or the XML decoding fails, or a MediaContainer of timelines arrives
VideoTimeline ==
    [Type |-> "video", State |-> "paused", Time |-> 5, Duration |-> 10, Volume |-> 50,
     Track |-> [Title |-> "", ParentTitle |-> "", GrandparentTitle |-> ""]]
MusicTimeline ==
    [Type |-> "music", State |-> "playing", Time |-> 1000, Duration |-> 172000,
     Volume |-> 100,
     Track |-> [Title |-> "Debaser", ParentTitle |-> "Doolittle",
                GrandparentTitle |-> "Pixies"]]
PollResponses ==
    {[err |-> e, Timelines |-> <<>>] : e \in {"get", "read", "unmarshal"}}
    \cup {[err |-> "", Timelines |-> t] : t \in {<<>>, <<VideoTimeline, MusicTimeline>>}}

\* errors of the transport underneath a fetch or a playback request
FetchError == "connection refused"
PlayError == "server returned status 500"

\* outcomes of the unsynchronised status write of sendCommand's goroutine:
\* it lands after Update copied the model ("late"), or before, with either text
RaceOutcomes == {"late", "error", "sent"}

\* the keys the operator presses
Keys == {"enter", "esc", "q", "a", "e", "d", "f", "r", "R", "p", "n", "b", "+", "-",
         "h", "tab", "1", "2", "3", "6", "7", "/", "down", "x"}

\* the keys a text input takes as a character
Printable == Keys \ {"enter", "esc", "tab", "down", "ctrl+c"}

-----------------------------------------------------------------------------
(* bubbles/list, as far as the program uses it *)

NewList(items) ==
    [items |-> items, cursor |-> 0, filterState |-> "unfiltered", filterValue |-> ""]

Nil == [nil |-> TRUE]

\* list.Model.SelectedItem
SelectedItem(l) ==
    IF l.cursor >= 0 /\ l.cursor < Len(l.items) THEN l.items[l.cursor + 1] ELSE Nil

\* list.Model.Update for a key event: while filtering, esc cancels the
\* filter, enter, tab and down accept it, and a character is typed into it
ListUpdate(l, key) ==
    IF l.filterState = "filtering"
    THEN CASE key = "esc" -> [l EXCEPT !.filterState = "unfiltered", !.filterValue = ""]
           [] key \in {"enter", "tab", "down"} ->
                IF l.filterValue = ""
                THEN [l EXCEPT !.filterState = "unfiltered"]
                ELSE [l EXCEPT !.filterState = "applied"]
           [] key \in Printable -> [l EXCEPT !.filterValue = l.filterValue \o key, !.cursor = 0]
           [] OTHER -> l
    ELSE CASE key = "/" -> [l EXCEPT !.filterState = "filtering", !.filterValue = "", !.cursor = 0]
           [] key = "down" ->
                IF l.cursor + 1 < Len(l.items) THEN [l EXCEPT !.cursor = l.cursor + 1] ELSE l
           [] key = "esc" -> [l EXCEPT !.filterState = "unfiltered", !.filterValue = ""]
           [] OTHER -> l

-----------------------------------------------------------------------------
(* Settings: config.Manager and config.FavoritesManager                     *)

\* Manager.createDefaultConfig
DefaultConfig ==
    [ServerID |-> "SELECT_SERVER", PlexServerAddr |-> "127.0.0.1:32400",
     PlexServerName |-> "SELECT_SERVER", PlexLibraryID |-> "15",
     SelectedPlayer |-> "127.0.0.1", SelectedPlayerName |-> "SELECT_PLAYER",
     PlexLibraryName |-> "SELECT_LIBRARY", PlexLibraries |-> <<LibDefault>>]

\* FavoritesManager.createDefaultFavorites
DefaultFavorites ==
    <<[Name |-> "Example Artist", Type |-> "artist", MetadataKey |-> "12345"],
      [Name |-> "Example Album", Type |-> "album", MetadataKey |-> "12345"],
      [Name |-> "Example Playlist", Type |-> "playlist", MetadataKey |-> "12345"]>>

\* a config file written by an earlier run in which no player was chosen
NoPlayerConfig ==
    [DefaultConfig EXCEPT !.SelectedPlayer = "", !.SelectedPlayerName = ""]

\* a config file written by an earlier run in which a server, a library and
\* a player were chosen
SavedConfig ==
    [ServerID |-> SrvA.clientIdentifier, PlexServerAddr |-> "192.168.1.10:32400",
     PlexServerName |-> SrvA.title, PlexLibraryID |-> LibMusic1.Key,
     SelectedPlayer |-> PlA.address, SelectedPlayerName |-> PlA.title,
     PlexLibraryName |-> LibMusic1.Title, PlexLibraries |-> <<LibMusic1, LibJazz2>>]

\* the config files the program starts from
InitConfigs == {DefaultConfig, NoPlayerConfig, SavedConfig}

\* Manager.Save: the file takes the new contents unless the write fails
SaveConfig(st, cfg, saveOk) ==
    IF saveOk THEN [st EXCEPT !.config = cfg] ELSE st

\* package config holds two FavoritesManager types: one keeps favorites.json,
\* the other the favorites table of favorites.db.  A run has one of them.
Managers == {"json", "database"}

Reverse(seq) == [i \in 1..Len(seq) |-> seq[Len(seq) + 1 - i]]

\* FavoritesManager.List: the rows of the table, newest first; store.favorites
\* holds the rows in the order they were inserted
List(rows) == Reverse(rows)

\* FavoritesManager.Load: the items of the file, or the rows List returns
LoadFavorites(st) ==
    IF st.manager = "database" THEN List(st.favorites) ELSE st.favorites

\* the favorites table: createTables declares UNIQUE(type, metadata_key).
\* A row is held as its name, type and metadata key; rows stand in the order
\* they were inserted.
SamePair(r, item) == r.Type = item.Type /\ r.MetadataKey = item.MetadataKey

\* FavoritesManager.Add without the update of the name: INSERT OR IGNORE
AddIgnoresConflict(rows, item) ==
    IF \E i \in 1..Len(rows) : SamePair(rows[i], item) THEN rows ELSE Append(rows, item)

\* FavoritesManager.Add: INSERT ... ON CONFLICT(type, metadata_key) DO UPDATE
\* SET name = excluded.name
Add(rows, item) ==
    IF \E i \in 1..Len(rows) : SamePair(rows[i], item)
    THEN [i \in 1..Len(rows) |->
            IF SamePair(rows[i], item) THEN [rows[i] EXCEPT !.Name = item.Name] ELSE rows[i]]
    ELSE Append(rows, item)

\* FavoritesManager.Remove: DELETE ... WHERE type = ? AND metadata_key = ?
Remove(rows, itemType, metadataKey) ==
    SelectSeq(rows, LAMBDA r : ~(r.Type = itemType /\ r.MetadataKey = metadataKey))

\* FavoritesManager.Save: the file takes the new contents unless the write
\* fails; the database manager's Save does nothing and returns nil
SaveFavorites(st, favs, saveOk) ==
    IF st.manager = "json" /\ saveOk THEN [st EXCEPT !.favorites = favs] ELSE st

-----------------------------------------------------------------------------
(* The model value *)

FavoriteListItems(favs) ==
    [i \in 1..Len(favs) |->
        [Name |-> favs[i].Name, Type |-> favs[i].Type, MetadataKey |-> favs[i].MetadataKey]]

\* NewUiManager
NewUiManager(cfg, favs, authenticated) ==
    [playbackList |-> NewList(FavoriteListItems(favs)),
     artistList |-> NewList(<<>>),
     albumList |-> NewList(<<>>),
     playlistList |-> NewList(<<>>),
     serverList |-> NewList(<<>>),
     playerList |-> NewList(<<>>),
     selected |-> cfg.SelectedPlayer,
     status |-> "",
     isPlaying |-> FALSE,
     lastCommand |-> "",
     currentTrack |-> "",
     volume |-> 0,
     durationMs |-> 0,
     positionMs |-> 0,
     shuffle |-> TRUE,
     plexAuthenticated |-> authenticated,
     timelineRequestID |-> 0,
     panelMode |-> "playback",
     playbackConfig |-> favs,
     config |-> cfg,
     editMode |-> "",
     editIndex |-> 0,
     editInputs |-> <<>>,
     typeSelect |-> 0,
     editFocusIndex |-> 0]

-----------------------------------------------------------------------------
(* Commands: what a returned tea.Cmd closure captured *)

\* kind names the closure; reqID and selected are what a poll or a playback
\* request captured, lib what a library fetch captured, key and item the
\* argument of the call, err the failure decided before the closure was built,
\* http whether the closure sends a request when it runs
NewCmd(kind, mm, err, key, item, http) ==
    [kind |-> kind,
     reqID |-> IF kind = "poll" THEN mm.timelineRequestID ELSE 0,
     selected |-> IF kind \in {"fetchArtists", "fetchAlbums", "fetchPlaylists",
                               "fetchServers", "fetchPlayers", "selectPlayer"}
                  THEN "" ELSE mm.selected,
     err |-> err, key |-> key, item |-> item,
     lib |-> IF kind \in {"fetchArtists", "fetchAlbums", "fetchPlaylists"}
             THEN mm.config.PlexLibraryID ELSE "",
     http |-> http]

\* Ret with tick() batched into what is returned
RetWithTick(mm, st, cmds, http) ==
    [m |-> mm, store |-> st, cmds |-> cmds, http |-> http, tick |-> 1, quit |-> FALSE]

\* what Update returns: the model, the settings files, the commands, the
\* requests started with `go http.Get`, the ticks armed, and tea.Quit
Ret(mm, st, cmds, http) ==
    [m |-> mm, store |-> st, cmds |-> cmds, http |-> http, tick |-> 0, quit |-> FALSE]

\* model.pollTimeline
pollTimeline(mm) ==
    IF mm.selected = ""
    THEN {}
    ELSE {NewCmd("poll", mm, "", "", NoItem, TRUE)}

\* model.sendCommand; race is where the goroutine's write of m.status lands
sendCommand(mm, path, race) ==
    IF mm.selected = ""
    THEN [m |-> [mm EXCEPT !.status = "No Plexamp instance selected"], http |-> {}]
    ELSE [m |-> CASE race = "error" -> [mm EXCEPT !.status = "Error: " \o FetchError]
                  [] race = "sent" -> [mm EXCEPT !.status = "[" \o mm.selected \o "] Sent " \o path]
                  [] OTHER -> mm,
          http |-> {"http://" \o mm.selected \o ":32500/player/" \o path}]

\* model.setVolume
setVolume(mm, v) ==
    IF mm.selected = ""
    THEN [m |-> mm, http |-> {}]
    ELSE [m |-> [mm EXCEPT !.volume = v],
          http |-> {"http://" \o mm.selected \o ":32500/player/playback/setParameters?volume="
                    \o ToString(v) \o "&commandID=1&type=music"}]

\* model.togglePlayback
togglePlayback(mm, st, race) ==
    LET s == sendCommand(mm, IF mm.isPlaying THEN "playback/pause" ELSE "playback/play", race)
        m2 == [s.m EXCEPT !.isPlaying = ~mm.isPlaying,
                          !.lastCommand = IF mm.isPlaying THEN "Pause" ELSE "Play"]
    IN Ret(m2, st, pollTimeline(m2), s.http)

\* model.nextTrack
nextTrack(mm, st, race) ==
    LET s == sendCommand(mm, "playback/skipNext", race)
        m2 == [s.m EXCEPT !.lastCommand = "Next"]
    IN Ret(m2, st, pollTimeline(m2), s.http)

\* model.previousTrack
previousTrack(mm, st, race) ==
    LET s == sendCommand(mm, "playback/skipPrevious", race)
        m2 == [s.m EXCEPT !.lastCommand = "Previous"]
    IN Ret(m2, st, pollTimeline(m2), s.http)

\* model.adjustVolume
adjustVolume(mm, st, delta) ==
    LET raw == mm.volume + delta
        newVol == IF raw < 0 THEN 0 ELSE IF raw > VolumeMax THEN VolumeMax ELSE raw
        s == setVolume(mm, newVol)
        m2 == [s.m EXCEPT !.lastCommand = "Volume " \o ToString(newVol) \o "%"]
    IN Ret(m2, st, pollTimeline(m2), s.http)

\* model.toggleShuffle
toggleShuffle(mm, st, race) ==
    LET m1 == [mm EXCEPT !.shuffle = ~mm.shuffle]
        s == sendCommand(m1, IF m1.shuffle THEN "playback/shuffle/on" ELSE "playback/shuffle/off", race)
        m2 == [s.m EXCEPT !.lastCommand = IF m1.shuffle THEN "Shuffle ON" ELSE "Shuffle OFF"]
    IN Ret(m2, st, {}, s.http)

\* model.fetchArtistsCmd
fetchArtistsCmd(mm) == {NewCmd("fetchArtists", mm, "", "", NoItem, TRUE)}
\* model.fetchAlbumsCmd
fetchAlbumsCmd(mm) == {NewCmd("fetchAlbums", mm, "", "", NoItem, TRUE)}
\* model.fetchPlaylistsCmd
fetchPlaylistsCmd(mm) == {NewCmd("fetchPlaylists", mm, "", "", NoItem, TRUE)}
\* model.fetchServersCmd
fetchServersCmd(mm) == {NewCmd("fetchServers", mm, "", "", NoItem, TRUE)}
\* model.fetchPlayersCmd
fetchPlayersCmd(mm) == {NewCmd("fetchPlayers", mm, "", "", NoItem, TRUE)}

\* model.refreshCurrentPanel
refreshCurrentPanel(mm) ==
    CASE mm.panelMode = "plex-artists" -> fetchArtistsCmd(mm)
      [] mm.panelMode = "plex-albums" -> fetchAlbumsCmd(mm)
      [] mm.panelMode = "plex-playlists" -> fetchPlaylistsCmd(mm)
      [] OTHER -> {}

\* the index of the first library whose key is k, 0 when there is none
LibraryIndex(libs, k) ==
    IF \E i \in 1..Len(libs) : libs[i].Key = k
    THEN CHOOSE i \in 1..Len(libs) :
            libs[i].Key = k /\ \A j \in 1..(i - 1) : libs[j].Key # k
    ELSE 0

\* cycleLibrary that stays on the last library in place of wrapping
cycleLibraryNoWrap(mm, st, saveOk) ==
    LET libs == mm.config.PlexLibraries
        i == LibraryIndex(libs, mm.config.PlexLibraryID)
        next == IF i = Len(libs) THEN i ELSE i + 1
        m2 == [mm EXCEPT !.config.PlexLibraryID = libs[next].Key,
                         !.config.PlexLibraryName = libs[next].Title]
    IN IF i = 0
       THEN Ret(mm, st, {}, {})
       ELSE Ret(m2, SaveConfig(st, m2.config, saveOk), refreshCurrentPanel(m2), {})

\* model.cycleLibrary
cycleLibrary(mm, st, saveOk) ==
    LET libs == mm.config.PlexLibraries
        i == LibraryIndex(libs, mm.config.PlexLibraryID)
        next == IF i = Len(libs) THEN 1 ELSE i + 1
        m2 == [mm EXCEPT !.config.PlexLibraryID = libs[next].Key,
                         !.config.PlexLibraryName = libs[next].Title]
    IN IF i = 0
       THEN Ret(mm, st, {}, {})
       ELSE Ret(m2, SaveConfig(st, m2.config, saveOk), refreshCurrentPanel(m2), {})

-----------------------------------------------------------------------------
(* Browse panels *)

\* model.initArtistBrowse
initArtistBrowse(mm) ==
    [mm EXCEPT !.panelMode = "plex-artists", !.status = "Loading artists...",
               !.artistList = NewList(<<[title |-> "Loading artists...", ratingKey |-> ""]>>)]

\* model.initAlbumBrowse
initAlbumBrowse(mm) ==
    [mm EXCEPT !.panelMode = "plex-albums", !.status = "Loading albums...",
               !.albumList = NewList(<<[title |-> "Loading albums...", artist |-> "",
                                        year |-> "", ratingKey |-> ""]>>)]

\* model.initPlaylistBrowse
initPlaylistBrowse(mm) ==
    [mm EXCEPT !.panelMode = "plex-playlists", !.status = "Loading playlists...",
               !.playlistList = NewList(<<[title |-> "Loading playlists...", ratingKey |-> ""]>>)]

\* model.initServerBrowse
initServerBrowse(mm) ==
    [mm EXCEPT !.panelMode = "plex-servers", !.status = "Loading servers...",
               !.serverList = NewList(<<[NoItem EXCEPT !.title = "Loading servers..."]>>)]

\* model.initPlayerBrowse
initPlayerBrowse(mm) ==
    [mm EXCEPT !.panelMode = "plex-players", !.status = "Loading players...",
               !.playerList = NewList(<<[NoItem EXCEPT !.title = "Loading players..."]>>)]

AuthRequired == "Plex authentication required (run with --auth)"

\* what handleControl and the open*Browser methods return: Ret and `handled`
Ctl(r, handled) == [r |-> r, handled |-> handled]

\* model.openArtistBrowser
openArtistBrowser(mm, st) ==
    IF mm.plexAuthenticated
    THEN Ctl(Ret(initArtistBrowse(mm), st, fetchArtistsCmd(initArtistBrowse(mm)), {}), TRUE)
    ELSE Ctl(Ret([mm EXCEPT !.status = AuthRequired], st, {}, {}), FALSE)

\* openAlbumBrowser without the authentication check
openAlbumBrowserUnchecked(mm, st) ==
    Ctl(Ret(initAlbumBrowse(mm), st, fetchAlbumsCmd(initAlbumBrowse(mm)), {}), TRUE)

\* model.openAlbumBrowser
openAlbumBrowser(mm, st) ==
    IF mm.plexAuthenticated
    THEN Ctl(Ret(initAlbumBrowse(mm), st, fetchAlbumsCmd(initAlbumBrowse(mm)), {}), TRUE)
    ELSE Ctl(Ret([mm EXCEPT !.status = AuthRequired], st, {}, {}), FALSE)

\* model.openPlaylistBrowser
openPlaylistBrowser(mm, st) ==
    IF mm.plexAuthenticated
    THEN Ctl(Ret(initPlaylistBrowse(mm), st, fetchPlaylistsCmd(initPlaylistBrowse(mm)), {}), TRUE)
    ELSE Ctl(Ret([mm EXCEPT !.status = AuthRequired], st, {}, {}), FALSE)

\* model.openServerBrowser
openServerBrowser(mm, st) ==
    IF mm.plexAuthenticated
    THEN Ctl(Ret(initServerBrowse(mm), st, fetchServersCmd(initServerBrowse(mm)), {}), TRUE)
    ELSE Ctl(Ret([mm EXCEPT !.status = AuthRequired], st, {}, {}), FALSE)

\* model.openPlayerBrowser
openPlayerBrowser(mm, st) ==
    IF mm.plexAuthenticated
    THEN Ctl(Ret(initPlayerBrowse(mm), st, fetchPlayersCmd(initPlayerBrowse(mm)), {}), TRUE)
    ELSE Ctl(Ret([mm EXCEPT !.status = AuthRequired], st, {}, {}), FALSE)

\* model.handleControl; env is the outcome of what the handler leaves to chance
handleControl(mm, st, key, env) ==
    CASE key \in {" ", "p"} -> Ctl(togglePlayback(mm, st, env.race), TRUE)
      [] key = "n" -> Ctl(nextTrack(mm, st, env.race), TRUE)
      [] key = "b" -> Ctl(previousTrack(mm, st, env.race), TRUE)
      [] key \in {"+", "]"} -> Ctl(adjustVolume(mm, st, VolumeStep), TRUE)
      [] key \in {"-", "["} -> Ctl(adjustVolume(mm, st, 0 - VolumeStep), TRUE)
      [] key = "h" -> Ctl(toggleShuffle(mm, st, env.race), TRUE)
      [] key = "tab" -> Ctl(cycleLibrary(mm, st, env.saveOk), TRUE)
      [] key = "r" -> Ctl(Ret(mm, st, refreshCurrentPanel(mm), {}), TRUE)
      [] key = "1" -> openArtistBrowser(mm, st)
      [] key = "2" -> openAlbumBrowser(mm, st)
      [] key = "3" -> openPlaylistBrowser(mm, st)
      [] key = "6" -> openServerBrowser(mm, st)
      [] key = "7" -> openPlayerBrowser(mm, st)
      [] OTHER -> Ctl(Ret(mm, st, {}, {}), FALSE)

-----------------------------------------------------------------------------
(* Playback triggers *)

NoServerSelected == "no server selected"

\* model.playArtistCmd
playArtistCmd(mm, ratingKey) ==
    IF mm.selected = ""
    THEN {NewCmd("playArtist", mm, NoServerSelected, ratingKey, NoItem, FALSE)}
    ELSE {NewCmd("playArtist", mm, "", ratingKey, NoItem, TRUE)}

\* model.playArtistRadioCmd
playArtistRadioCmd(mm, ratingKey) ==
    IF mm.selected = ""
    THEN {NewCmd("playArtistRadio", mm, NoServerSelected, ratingKey, NoItem, FALSE)}
    ELSE {NewCmd("playArtistRadio", mm, "", ratingKey, NoItem, TRUE)}

\* playAlbumCmd without the check for a selected player
playAlbumCmdUnchecked(mm, ratingKey) ==
    {NewCmd("playAlbum", mm, "", ratingKey, NoItem, TRUE)}

\* model.playAlbumCmd
playAlbumCmd(mm, ratingKey) ==
    IF mm.selected = ""
    THEN {NewCmd("playAlbum", mm, NoServerSelected, ratingKey, NoItem, FALSE)}
    ELSE {NewCmd("playAlbum", mm, "", ratingKey, NoItem, TRUE)}

\* model.playPlaylistCmd
playPlaylistCmd(mm, ratingKey) ==
    IF mm.selected = ""
    THEN {NewCmd("playPlaylist", mm, NoServerSelected, ratingKey, NoItem, FALSE)}
    ELSE {NewCmd("playPlaylist", mm, "", ratingKey, NoItem, TRUE)}

\* model.triggerPlaybackCmd
triggerPlaybackCmd(mm, fullURL) ==
    IF mm.selected = ""
    THEN {NewCmd("triggerPlayback", mm, NoServerSelected, fullURL, NoItem, FALSE)}
    ELSE {NewCmd("triggerPlayback", mm, "", fullURL, NoItem, TRUE)}

\* model.triggerFavoriteRadioPlayback
triggerFavoriteRadioPlayback(mm, st, fav) ==
    IF mm.selected = ""
    THEN Ret(mm, st, {NewCmd("favoriteRadio", mm, NoServerSelected, fav.MetadataKey, NoItem, FALSE)}, {})
    ELSE LET m2 == [mm EXCEPT !.lastCommand = "Playing radio for " \o fav.Name]
         IN Ret(m2, st, playArtistRadioCmd(m2, fav.MetadataKey), {})

\* model.triggerFavoritePlayback
triggerFavoritePlayback(mm, st, fav) ==
    IF mm.selected = ""
    THEN Ret(mm, st, {NewCmd("favorite", mm, NoServerSelected, fav.MetadataKey, NoItem, FALSE)}, {})
    ELSE LET m2 == [mm EXCEPT !.lastCommand = "Playing " \o fav.Name]
         IN CASE fav.Type = "artist" -> Ret(m2, st, playArtistCmd(m2, fav.MetadataKey), {})
              [] fav.Type = "album" -> Ret(m2, st, playAlbumCmd(m2, fav.MetadataKey), {})
              [] fav.Type = "playlist" -> Ret(m2, st, playPlaylistCmd(m2, fav.MetadataKey), {})
              [] OTHER -> Ret(m2, st, {NewCmd("favorite", m2, "unknown type: " \o fav.Type,
                                              fav.MetadataKey, NoItem, FALSE)}, {})

\* model.selectServerCmd
selectServerCmd(mm, server) ==
    IF mm.selected = ""
    THEN {NewCmd("selectServer", mm, NoServerSelected, "", server, FALSE)}
    ELSE {NewCmd("selectServer", mm, "", "", server, TRUE)}

\* model.selectPlayerCmd
selectPlayerCmd(mm, player) == {NewCmd("selectPlayer", mm, "", "", player, FALSE)}

-----------------------------------------------------------------------------
(* Favorites and the edit form *)

TypeNames == <<"artist", "album", "playlist">>

\* model.initEditMode
initEditMode(mm, editType, index) ==
    LET editing == index >= 0 /\ index < Len(mm.playbackConfig)
        fav == mm.playbackConfig[index + 1]
    IN [mm EXCEPT !.panelMode = "edit", !.editMode = editType, !.editIndex = index,
                  !.editFocusIndex = 0,
                  !.typeSelect = IF editing
                                 THEN CASE fav.Type = "album" -> 1
                                        [] fav.Type = "playlist" -> 2
                                        [] OTHER -> 0
                                 ELSE 0,
                  !.editInputs = IF editing THEN <<fav.Name, fav.MetadataKey>> ELSE <<"", "">>]

\* cancelEdit that always takes the branch of editMode "server"
cancelEditToServers(mm) ==
    [mm EXCEPT !.panelMode = "servers", !.editInputs = <<>>]

\* model.cancelEdit
cancelEdit(mm) ==
    [mm EXCEPT !.panelMode = IF mm.editMode = "server" THEN "servers" ELSE "playback",
               !.editInputs = <<>>]

\* savePlaybackEdit without the check of the metadata key
savePlaybackEditAnyKey(mm, st, saveOk) ==
    LET newName == mm.editInputs[1]
        newMetadataKey == mm.editInputs[2]
        selectedType == TypeNames[mm.typeSelect + 1]
        new == [Name |-> newName, Type |-> selectedType, MetadataKey |-> newMetadataKey]
        old == LoadFavorites(st)
        favs == IF mm.editIndex = -1
                THEN Append(old, new)
                ELSE [old EXCEPT ![mm.editIndex + 1] = new]
        m2 == [mm EXCEPT !.playbackList.items = FavoriteListItems(favs),
                         !.playbackConfig = favs,
                         !.panelMode = "playback",
                         !.editInputs = <<>>]
    IN CASE Len(mm.editInputs) < 2 -> [err |-> "missing input fields", r |-> Ret(mm, st, {}, {})]
         [] newName = "" -> [err |-> "name cannot be empty", r |-> Ret(mm, st, {}, {})]
         [] mm.editIndex # -1 /\ ~(mm.editIndex < Len(old)) ->
                [err |-> "invalid index", r |-> Ret(mm, st, {}, {})]
         [] OTHER -> [err |-> "", r |-> Ret(m2, SaveFavorites(st, favs, saveOk), {}, {})]

\* model.savePlaybackEdit: the error text and what Update returns
savePlaybackEdit(mm, st, saveOk) ==
    LET newName == mm.editInputs[1]
        newMetadataKey == mm.editInputs[2]
        selectedType == TypeNames[mm.typeSelect + 1]
        new == [Name |-> newName, Type |-> selectedType, MetadataKey |-> newMetadataKey]
        old == LoadFavorites(st)
        favs == IF mm.editIndex = -1
                THEN Append(old, new)
                ELSE [old EXCEPT ![mm.editIndex + 1] = new]
        m2 == [mm EXCEPT !.playbackList.items = FavoriteListItems(favs),
                         !.playbackConfig = favs,
                         !.panelMode = "playback",
                         !.editInputs = <<>>]
    IN CASE Len(mm.editInputs) < 2 -> [err |-> "missing input fields", r |-> Ret(mm, st, {}, {})]
         [] newName = "" -> [err |-> "name cannot be empty", r |-> Ret(mm, st, {}, {})]
         [] newMetadataKey = "" -> [err |-> "metadata key cannot be empty", r |-> Ret(mm, st, {}, {})]
         [] mm.editIndex # -1 /\ ~(mm.editIndex < Len(old)) ->
                [err |-> "invalid index", r |-> Ret(mm, st, {}, {})]
         [] OTHER -> [err |-> "", r |-> Ret(m2, SaveFavorites(st, favs, saveOk), {}, {})]

\* model.handleEditUpdate for a key event
handleEditUpdate(mm, st, key, env) ==
    CASE key = "ctrl+c" -> [Ret(mm, st, {}, {}) EXCEPT !.quit = TRUE]
      [] key = "esc" -> Ret(cancelEdit(mm), st, {}, {})
      [] key = "enter" ->
            LET s == savePlaybackEdit(mm, st, env.saveOk)
            IN [s.r EXCEPT !.m.lastCommand =
                    IF s.err # "" THEN "Save failed: " \o s.err ELSE "Saved successfully"]
      [] key = "tab" -> Ret([mm EXCEPT !.editFocusIndex = (mm.editFocusIndex + 1) % 3], st, {}, {})
      [] key \in {"left", "h"} /\ mm.editFocusIndex = 1 ->
            Ret([mm EXCEPT !.typeSelect = IF mm.typeSelect > 0 THEN mm.typeSelect - 1 ELSE 0], st, {}, {})
      [] key \in {"right", "l"} /\ mm.editFocusIndex = 1 ->
            Ret([mm EXCEPT !.typeSelect = IF mm.typeSelect < 2 THEN mm.typeSelect + 1 ELSE 2], st, {}, {})
      [] OTHER ->
            CASE mm.editFocusIndex = 0 /\ key \in Printable ->
                    Ret([mm EXCEPT !.editInputs[1] = mm.editInputs[1] \o key], st, {}, {})
              [] mm.editFocusIndex = 1 /\ key = "down" ->
                    Ret([mm EXCEPT !.typeSelect = IF mm.typeSelect < 2 THEN mm.typeSelect + 1 ELSE 2], st, {}, {})
              [] mm.editFocusIndex = 2 /\ key \in Printable ->
                    Ret([mm EXCEPT !.editInputs[2] = mm.editInputs[2] \o key], st, {}, {})
              [] OTHER -> Ret(mm, st, {}, {})

RemoveAt(seq, i) == [j \in 1..(Len(seq) - 1) |-> IF j < i THEN seq[j] ELSE seq[j + 1]]

\* model.deletePlaybackItem
deletePlaybackItem(mm, st, index, saveOk) ==
    LET favs == IF index >= 0 /\ index < Len(mm.playbackConfig)
                THEN RemoveAt(mm.playbackConfig, index + 1)
                ELSE mm.playbackConfig
        m2 == [mm EXCEPT !.playbackConfig = favs, !.playbackList.items = FavoriteListItems(favs)]
    IN Ret(m2, SaveFavorites(st, favs, saveOk), {}, {})

\* model.savePlaybackItem
savePlaybackItem(mm, st, name, k, t, saveOk) ==
    LET new == [Name |-> name, Type |-> t, MetadataKey |-> k]
        favs == Append(mm.playbackConfig, new)
        m2 == [mm EXCEPT !.playbackConfig = favs,
                         !.playbackList.items = Append(mm.playbackList.items, new)]
    IN Ret(m2, SaveFavorites(st, favs, saveOk), {}, {})

\* model.getCurrentFavSet
getCurrentFavSet(mm) ==
    {mm.playbackList.items[i].MetadataKey : i \in 1..Len(mm.playbackList.items)}

\* model.addRemoveFavorite
addRemoveFavorite(mm, st, name, k, t, saveOk) ==
    IF k \in getCurrentFavSet(mm)
    THEN deletePlaybackItem(mm, st, mm.playbackList.cursor, saveOk)
    ELSE savePlaybackItem(mm, st, name, k, t, saveOk)

Star == " *"

\* strings.HasSuffix(title, " ★"), over the titles the model holds
HasStar(title) ==
    Len(title) >= Len(Star) /\ SubSeq(title, Len(title) - Len(Star) + 1, Len(title)) = Star

\* artistItem.ToggleFavorite
ToggleFavorite(a) ==
    IF HasStar(a.title)
    THEN [a EXCEPT !.title = SubSeq(a.title, 1, Len(a.title) - Len(Star))]
    ELSE [a EXCEPT !.title = a.title \o Star]

-----------------------------------------------------------------------------
(* Browse handlers *)

\* the browse items a fetched list is converted to
ArtistItems(mm, artists) ==
    [i \in 1..Len(artists) |->
        [title |-> IF artists[i].RatingKey \in getCurrentFavSet(mm)
                   THEN artists[i].Title \o Star
                   ELSE artists[i].Title,
         ratingKey |-> artists[i].RatingKey]]

AlbumItems(albums) ==
    [i \in 1..Len(albums) |->
        [title |-> albums[i].Title, artist |-> albums[i].ParentTitle,
         year |-> albums[i].Year, ratingKey |-> albums[i].RatingKey]]

PlaylistItems(playlists) ==
    [i \in 1..Len(playlists) |->
        [title |-> playlists[i].Title, ratingKey |-> playlists[i].RatingKey]]

\* SetItems followed by ResetSelected
Loaded(l, items) == [l EXCEPT !.items = items, !.cursor = 0]

\* handleArtistBrowseUpdate, a key no case names: the common controls, else the list
ArtistControlOr(c, key) ==
    IF c.handled THEN c.r ELSE [c.r EXCEPT !.m.artistList = ListUpdate(c.r.m.artistList, key)]

\* model.handleArtistBrowseUpdate
handleArtistBrowseUpdate(mm, st, msg, env) ==
    LET sel == SelectedItem(mm.artistList)
        typed(r) == [r EXCEPT !.m.artistList = ListUpdate(r.m.artistList, msg.key)]
    IN IF mm.artistList.filterState = "filtering"
       THEN IF msg.kind = "key" THEN typed(Ret(mm, st, {}, {})) ELSE Ret(mm, st, {}, {})
       ELSE CASE msg.kind = "key" ->
                CASE msg.key \in {"esc", "q"} ->
                        Ret([mm EXCEPT !.panelMode = "playback", !.status = ""], st, {}, {})
                  [] msg.key = "enter" ->
                        IF sel # Nil
                        THEN LET m2 == [mm EXCEPT !.lastCommand = "Playing " \o sel.title]
                             IN Ret(m2, st, playArtistCmd(m2, sel.ratingKey), {})
                        ELSE Ret(mm, st, {}, {})
                  [] msg.key = "f" ->
                        IF sel # Nil
                        THEN LET m2 == [mm EXCEPT !.lastCommand = "Toggling favorite for " \o sel.title]
                                 r == addRemoveFavorite(m2, st, sel.title, sel.ratingKey, "artist", env.saveOk)
                             IN [r EXCEPT !.m.artistList.items[mm.artistList.cursor + 1] = ToggleFavorite(sel)]
                        ELSE typed(Ret(mm, st, {}, {}))
                  [] msg.key = "r" ->
                        IF sel # Nil
                        THEN LET m2 == [mm EXCEPT !.lastCommand = "Playing " \o sel.title \o " Radio"]
                             IN Ret(m2, st, playArtistRadioCmd(m2, sel.ratingKey), {})
                        ELSE Ret(mm, st, {}, {})
                  [] msg.key = "R" ->
                        LET m2 == [mm EXCEPT !.status = "Refreshing artists..."]
                        IN Ret(m2, st, fetchArtistsCmd(m2), {})
                  [] OTHER -> ArtistControlOr(handleControl(mm, st, msg.key, env), msg.key)
              [] msg.kind = "artistsFetched" ->
                IF msg.err # ""
                THEN Ret([mm EXCEPT !.status = "Error fetching artists: " \o msg.err], st, {}, {})
                ELSE Ret([mm EXCEPT !.artistList = Loaded(mm.artistList, ArtistItems(mm, msg.items)),
                                    !.status = "Loaded " \o ToString(Len(msg.items)) \o " artists"],
                         st, {}, {})
              [] msg.kind = "artistPlayback" ->
                IF msg.success
                THEN Ret([mm EXCEPT !.lastCommand = "Artist Playback Started",
                                    !.status = "Playback triggered successfully"], st, {}, {})
                ELSE Ret([mm EXCEPT !.lastCommand = "Playback Failed",
                                    !.status = "Playback error: " \o msg.err], st, {}, {})
              [] OTHER -> Ret(mm, st, {}, {})

\* handleAlbumBrowseUpdate, a key no case names: the common controls, else the list
AlbumControlOr(c, key) ==
    IF c.handled THEN c.r ELSE [c.r EXCEPT !.m.albumList = ListUpdate(c.r.m.albumList, key)]

\* model.handleAlbumBrowseUpdate
handleAlbumBrowseUpdate(mm, st, msg, env) ==
    LET sel == SelectedItem(mm.albumList)
        typed(r) == [r EXCEPT !.m.albumList = ListUpdate(r.m.albumList, msg.key)]
    IN IF mm.albumList.filterState = "filtering"
       THEN IF msg.kind = "key" THEN typed(Ret(mm, st, {}, {})) ELSE Ret(mm, st, {}, {})
       ELSE CASE msg.kind = "key" ->
                CASE msg.key \in {"esc", "q"} ->
                        Ret([mm EXCEPT !.panelMode = "playback", !.status = ""], st, {}, {})
                  [] msg.key = "enter" ->
                        IF sel # Nil
                        THEN LET m2 == [mm EXCEPT !.lastCommand = "Playing " \o sel.title]
                             IN Ret(m2, st, playAlbumCmd(m2, sel.ratingKey), {})
                        ELSE Ret(mm, st, {}, {})
                  [] msg.key = "R" ->
                        LET m2 == [mm EXCEPT !.status = "Refreshing albums..."]
                        IN Ret(m2, st, fetchAlbumsCmd(m2), {})
                  [] OTHER -> AlbumControlOr(handleControl(mm, st, msg.key, env), msg.key)
              [] msg.kind = "albumsFetched" ->
                IF msg.err # ""
                THEN Ret([mm EXCEPT !.status = "Error fetching albums: " \o msg.err], st, {}, {})
                ELSE Ret([mm EXCEPT !.albumList = Loaded(mm.albumList, AlbumItems(msg.items)),
                                    !.status = "Loaded " \o ToString(Len(msg.items)) \o " albums"],
                         st, {}, {})
              [] msg.kind = "albumPlayback" ->
                IF msg.success
                THEN Ret([mm EXCEPT !.lastCommand = "Album Playback Started",
                                    !.status = "Playback triggered successfully"], st, {}, {})
                ELSE Ret([mm EXCEPT !.lastCommand = "Playback Failed",
                                    !.status = "Playback error: " \o msg.err], st, {}, {})
              [] OTHER -> Ret(mm, st, {}, {})

\* handlePlaylistBrowseUpdate, a key no case names: the common controls, else the list
PlaylistControlOr(c, key) ==
    IF c.handled THEN c.r ELSE [c.r EXCEPT !.m.playlistList = ListUpdate(c.r.m.playlistList, key)]

\* model.handlePlaylistBrowseUpdate
handlePlaylistBrowseUpdate(mm, st, msg, env) ==
    LET sel == SelectedItem(mm.playlistList)
        typed(r) == [r EXCEPT !.m.playlistList = ListUpdate(r.m.playlistList, msg.key)]
    IN IF mm.playlistList.filterState = "filtering"
       THEN IF msg.kind = "key" THEN typed(Ret(mm, st, {}, {})) ELSE Ret(mm, st, {}, {})
       ELSE CASE msg.kind = "key" ->
                CASE msg.key \in {"esc", "q"} ->
                        Ret([mm EXCEPT !.panelMode = "playback", !.status = ""], st, {}, {})
                  [] msg.key = "enter" ->
                        IF sel # Nil
                        THEN LET m2 == [mm EXCEPT !.lastCommand = "Playing " \o sel.title]
                             IN Ret(m2, st, playPlaylistCmd(m2, sel.ratingKey), {})
                        ELSE Ret(mm, st, {}, {})
                  [] msg.key = "R" ->
                        LET m2 == [mm EXCEPT !.status = "Refreshing playlists..."]
                        IN Ret(m2, st, fetchPlaylistsCmd(m2), {})
                  [] OTHER -> PlaylistControlOr(handleControl(mm, st, msg.key, env), msg.key)
              [] msg.kind = "playlistsFetched" ->
                IF msg.err # ""
                THEN Ret([mm EXCEPT !.status = "Error fetching playlists: " \o msg.err], st, {}, {})
                ELSE Ret([mm EXCEPT !.playlistList = Loaded(mm.playlistList, PlaylistItems(msg.items)),
                                    !.status = "Loaded " \o ToString(Len(msg.items)) \o " playlists"],
                         st, {}, {})
              [] msg.kind = "playlistPlayback" ->
                IF msg.success
                THEN Ret([mm EXCEPT !.lastCommand = "Playlist Playback Started",
                                    !.status = "Playback triggered successfully"], st, {}, {})
                ELSE Ret([mm EXCEPT !.lastCommand = "Playback Failed",
                                    !.status = "Playback error: " \o msg.err], st, {}, {})
              [] OTHER -> Ret(mm, st, {}, {})

\* handleServerBrowseUpdate, a key no case names: the common controls, else the list
ServerControlOr(c, key) ==
    IF c.handled THEN c.r ELSE [c.r EXCEPT !.m.serverList = ListUpdate(c.r.m.serverList, key)]

\* model.handleServerBrowseUpdate
handleServerBrowseUpdate(mm, st, msg, env) ==
    LET sel == SelectedItem(mm.serverList)
        typed(r) == [r EXCEPT !.m.serverList = ListUpdate(r.m.serverList, msg.key)]
    IN IF mm.serverList.filterState = "filtering"
       THEN IF msg.kind = "key" THEN typed(Ret(mm, st, {}, {})) ELSE Ret(mm, st, {}, {})
       ELSE CASE msg.kind = "key" ->
                CASE msg.key \in {"esc", "q"} ->
                        Ret([mm EXCEPT !.panelMode = "playback", !.status = ""], st, {}, {})
                  [] msg.key = "enter" ->
                        IF sel # Nil
                        THEN LET m2 == [mm EXCEPT !.lastCommand = "Selecting " \o sel.title]
                             IN Ret(m2, st, selectServerCmd(m2, sel), {})
                        ELSE Ret(mm, st, {}, {})
                  [] msg.key = "R" ->
                        LET m2 == [mm EXCEPT !.status = "Refreshing servers..."]
                        IN Ret(m2, st, fetchServersCmd(m2), {})
                  [] OTHER -> ServerControlOr(handleControl(mm, st, msg.key, env), msg.key)
              [] msg.kind = "serversFetched" ->
                IF msg.err # ""
                THEN Ret([mm EXCEPT !.status = "Error fetching servers: " \o msg.err], st, {}, {})
                ELSE Ret([mm EXCEPT !.serverList = Loaded(mm.serverList, msg.items),
                                    !.status = "Loaded " \o ToString(Len(msg.items)) \o " servers"],
                         st, {}, {})
              [] OTHER -> Ret(mm, st, {}, {})

\* handlePlayerBrowseUpdate, a key no case names: the common controls, else the list
PlayerControlOr(c, key) ==
    IF c.handled THEN c.r ELSE [c.r EXCEPT !.m.playerList = ListUpdate(c.r.m.playerList, key)]

\* handlePlayerBrowseUpdate without the test of the filtering sub-mode
handlePlayerBrowseUpdateUnfiltered(mm, st, msg, env) ==
    LET sel == SelectedItem(mm.playerList)
    IN CASE msg.kind = "key" ->
                CASE msg.key \in {"esc", "q"} ->
                        Ret([mm EXCEPT !.panelMode = "playback", !.status = ""], st, {}, {})
                  [] msg.key = "enter" ->
                        IF sel # Nil
                        THEN LET m2 == [mm EXCEPT !.lastCommand = "Selecting " \o sel.title]
                             IN Ret(m2, st, selectPlayerCmd(m2, sel), {})
                        ELSE Ret(mm, st, {}, {})
                  [] msg.key = "R" ->
                        LET m2 == [mm EXCEPT !.status = "Refreshing players..."]
                        IN Ret(m2, st, fetchPlayersCmd(m2), {})
                  [] OTHER -> PlayerControlOr(handleControl(mm, st, msg.key, env), msg.key)
              [] msg.kind = "playersFetched" ->
                IF msg.err # ""
                THEN Ret([mm EXCEPT !.status = "Error fetching players: " \o msg.err], st, {}, {})
                ELSE Ret([mm EXCEPT !.playerList = Loaded(mm.playerList, msg.items),
                                    !.status = "Loaded " \o ToString(Len(msg.items)) \o " players"],
                         st, {}, {})
              [] OTHER -> Ret(mm, st, {}, {})

\* model.handlePlayerBrowseUpdate
handlePlayerBrowseUpdate(mm, st, msg, env) ==
    LET sel == SelectedItem(mm.playerList)
        typed(r) == [r EXCEPT !.m.playerList = ListUpdate(r.m.playerList, msg.key)]
    IN IF mm.playerList.filterState = "filtering"
       THEN IF msg.kind = "key" THEN typed(Ret(mm, st, {}, {})) ELSE Ret(mm, st, {}, {})
       ELSE CASE msg.kind = "key" ->
                CASE msg.key \in {"esc", "q"} ->
                        Ret([mm EXCEPT !.panelMode = "playback", !.status = ""], st, {}, {})
                  [] msg.key = "enter" ->
                        IF sel # Nil
                        THEN LET m2 == [mm EXCEPT !.lastCommand = "Selecting " \o sel.title]
                             IN Ret(m2, st, selectPlayerCmd(m2, sel), {})
                        ELSE Ret(mm, st, {}, {})
                  [] msg.key = "R" ->
                        LET m2 == [mm EXCEPT !.status = "Refreshing players..."]
                        IN Ret(m2, st, fetchPlayersCmd(m2), {})
                  [] OTHER -> PlayerControlOr(handleControl(mm, st, msg.key, env), msg.key)
              [] msg.kind = "playersFetched" ->
                IF msg.err # ""
                THEN Ret([mm EXCEPT !.status = "Error fetching players: " \o msg.err], st, {}, {})
                ELSE Ret([mm EXCEPT !.playerList = Loaded(mm.playerList, msg.items),
                                    !.status = "Loaded " \o ToString(Len(msg.items)) \o " players"],
                         st, {}, {})
              [] OTHER -> Ret(mm, st, {}, {})

-----------------------------------------------------------------------------
(* Update *)

\* the index of the first favorite with this name (and type, when given)
FirstFavorite(favs, name, types) ==
    LET hits == {i \in 1..Len(favs) : favs[i].Name = name /\ favs[i].Type \in types}
    IN IF hits = {} THEN 0 ELSE CHOOSE i \in hits : \A j \in hits : i <= j

\* `return m, m.trigger...(pb)`: Go does not order the read of m and the call
\* that writes m.lastCommand
ReturnWithCall(mm, r, order) ==
    IF order = "copyFirst" THEN [r EXCEPT !.m = mm] ELSE r

\* the closing list update of Update, by panel mode
UpdateActiveList(mm, msg) ==
    IF msg.kind # "key"
    THEN mm
    ELSE CASE mm.panelMode = "playback" ->
                [mm EXCEPT !.playbackList = ListUpdate(mm.playbackList, msg.key)]
           [] mm.panelMode = "plex-artists" ->
                [mm EXCEPT !.artistList = ListUpdate(mm.artistList, msg.key)]
           [] mm.panelMode = "plex-albums" ->
                [mm EXCEPT !.albumList = ListUpdate(mm.albumList, msg.key)]
           [] mm.panelMode = "plex-playlists" ->
                [mm EXCEPT !.playlistList = ListUpdate(mm.playlistList, msg.key)]
           [] mm.panelMode = "plex-servers" ->
                [mm EXCEPT !.serverList = ListUpdate(mm.serverList, msg.key)]
           [] mm.panelMode = "plex-players" ->
                [mm EXCEPT !.playerList = ListUpdate(mm.playerList, msg.key)]
           [] OTHER -> mm

\* UpdatePlayerSelect that leaves the active player as it was
UpdatePlayerSelectKeepActive(mm, st, msg, env) ==
    IF msg.err # ""
    THEN Ret([mm EXCEPT !.status = "Error selecting player: " \o msg.err], st, {}, {})
    ELSE IF msg.success
         THEN LET m2 == [mm EXCEPT !.config.SelectedPlayer = msg.player.address,
                                   !.config.SelectedPlayerName = msg.player.title,
                                   !.lastCommand = "Player Selected",
                                   !.status = "",
                                   !.panelMode = "playback"]
              IN Ret(m2, SaveConfig(st, m2.config, env.saveOk), {}, {})
         ELSE Ret(mm, st, {}, {})

\* Update, case playerSelectMsg
UpdatePlayerSelect(mm, st, msg, env) ==
    IF msg.err # ""
    THEN Ret([mm EXCEPT !.status = "Error selecting player: " \o msg.err], st, {}, {})
    ELSE IF msg.success
         THEN LET m2 == [mm EXCEPT !.config.SelectedPlayer = msg.player.address,
                                   !.config.SelectedPlayerName = msg.player.title,
                                   !.selected = msg.player.address,
                                   !.lastCommand = "Player Selected",
                                   !.status = "",
                                   !.panelMode = "playback"]
              IN Ret(m2, SaveConfig(st, m2.config, env.saveOk), {}, {})
         ELSE Ret(mm, st, {}, {})

\* UpdateServerSelect without the fallback to the first library: the
\* configured library is kept when the new server does not have it
UpdateServerSelectKeepLibrary(mm, st, msg, env) ==
    LET libs == msg.libraries
        m1 == [mm EXCEPT !.config.ServerID = msg.server.clientIdentifier,
                         !.config.PlexServerAddr = msg.server.address \o ":" \o msg.server.port,
                         !.config.PlexServerName = msg.server.title,
                         !.config.PlexLibraries = libs]
        m3 == [m1 EXCEPT !.lastCommand = "Server Selected", !.status = "",
                         !.panelMode = "playback"]
    IN IF msg.err # ""
       THEN Ret([mm EXCEPT !.status = "Error selecting server: " \o msg.err], st, {}, {})
       ELSE IF ~msg.success
            THEN Ret(mm, st, {}, {})
            ELSE IF Len(libs) = 0
                 THEN Ret([m1 EXCEPT !.panelMode = "playback",
                                     !.lastCommand = "Server Selected Failed, No Libraries",
                                     !.status = "No libraries found on this server"],
                          st, {}, {})
                 ELSE Ret(m3, SaveConfig(st, m3.config, env.saveOk), {}, {})

\* Update, case serverSelectMsg
UpdateServerSelect(mm, st, msg, env) ==
    LET libs == msg.libraries
        m1 == [mm EXCEPT !.config.ServerID = msg.server.clientIdentifier,
                         !.config.PlexServerAddr = msg.server.address \o ":" \o msg.server.port,
                         !.config.PlexServerName = msg.server.title,
                         !.config.PlexLibraries = libs]
        found == \E i \in 1..Len(libs) : libs[i].Title = m1.config.PlexLibraryName
        m2 == IF found
              THEN m1
              ELSE [m1 EXCEPT !.config.PlexLibraryName = libs[1].Title,
                              !.config.PlexLibraryID = libs[1].Key]
        m3 == [m2 EXCEPT !.lastCommand = "Server Selected", !.status = "",
                         !.panelMode = "playback"]
    IN IF msg.err # ""
       THEN Ret([mm EXCEPT !.status = "Error selecting server: " \o msg.err], st, {}, {})
       ELSE IF ~msg.success
            THEN Ret(mm, st, {}, {})
            ELSE IF Len(libs) = 0
                 THEN Ret([m1 EXCEPT !.panelMode = "playback",
                                     !.lastCommand = "Server Selected Failed, No Libraries",
                                     !.status = "No libraries found on this server"],
                          st, {}, {})
                 ELSE Ret(m3, SaveConfig(st, m3.config, env.saveOk), {}, {})

\* Update, case tea.KeyMsg, a key the playback panel does not take: quit,
\* the common controls, else the closing list update
MainKeyOr(mm, st, c, msg) ==
    CASE msg.key \in {"ctrl+c", "q"} -> [Ret(mm, st, {}, {}) EXCEPT !.quit = TRUE]
      [] c.handled -> c.r
      [] OTHER -> [c.r EXCEPT !.m = UpdateActiveList(c.r.m, msg)]

\* Update, case tea.KeyMsg with panelMode "playback" and below
UpdatePlaybackKey(mm, st, msg, env) ==
    LET key == msg.key
        sel == SelectedItem(mm.playbackList)
        index == mm.playbackList.cursor
        radio == IF sel = Nil THEN 0 ELSE FirstFavorite(mm.playbackConfig, sel.Name, {"artist"})
        fav == IF sel = Nil THEN 0 ELSE FirstFavorite(mm.playbackConfig, sel.Name, {"artist", "album", "playlist"})
        panel == mm.panelMode = "playback"
        keys == panel /\ mm.playbackList.filterState # "filtering"
    IN CASE panel /\ ~keys ->
                Ret([mm EXCEPT !.playbackList = ListUpdate(mm.playbackList, key)], st, {}, {})
         [] keys /\ key = "a" -> Ret(initEditMode(mm, "playback", -1), st, {}, {})
         [] keys /\ key = "e" -> Ret(initEditMode(mm, "playback", index), st, {}, {})
         [] keys /\ key = "d" -> deletePlaybackItem(mm, st, index, env.saveOk)
         [] keys /\ key = "r" /\ radio # 0 ->
                ReturnWithCall(mm, triggerFavoriteRadioPlayback(mm, st, mm.playbackConfig[radio]),
                               env.order)
         [] keys /\ key = "enter" /\ fav # 0 ->
                ReturnWithCall(mm, triggerFavoritePlayback(mm, st, mm.playbackConfig[fav]),
                               env.order)
         [] keys /\ key = "enter" /\ fav = 0 -> Ret(mm, st, {}, {})
         [] OTHER -> MainKeyOr(mm, st, handleControl(mm, st, key, env), msg)

\* UpdateTrackMsg without the epoch check: every poll result is applied
UpdateTrackMsgAnyEpoch(mm, st, msg) ==
    Ret([mm EXCEPT !.currentTrack = msg.TrackText,
                   !.isPlaying = msg.IsPlaying,
                   !.durationMs = msg.Duration,
                   !.positionMs = msg.Position,
                   !.volume = msg.Volume], st, {}, {})

\* Update, case trackMsgWithState
UpdateTrackMsg(mm, st, msg) ==
    IF msg.RequestID # mm.timelineRequestID
    THEN Ret(mm, st, {}, {})
    ELSE Ret([mm EXCEPT !.currentTrack = msg.TrackText,
                        !.isPlaying = msg.IsPlaying,
                        !.durationMs = msg.Duration,
                        !.positionMs = msg.Position,
                        !.volume = msg.Volume], st, {}, {})

\* Update, case playbackTriggeredMsg
UpdatePlaybackTriggered(mm, st, msg) ==
    IF msg.success
    THEN Ret([mm EXCEPT !.lastCommand = "Playback Started",
                        !.status = "Playback triggered successfully"], st, {}, {})
    ELSE Ret([mm EXCEPT !.lastCommand = "Playback Failed",
                        !.status = "Playback error: " \o msg.err], st, {}, {})

FetchedKinds == {"artistsFetched", "albumsFetched", "playlistsFetched",
                 "serversFetched", "playersFetched"}

\* model.Update: a browse panel's handler takes the keys pressed in its panel
\* and its own fetch result while its panel is shown; a fetch result for
\* another panel returns the model as it is
Update(mm, st, msg, env) ==
    CASE msg.kind = "playerSelect" -> UpdatePlayerSelect(mm, st, msg, env)
      [] msg.kind = "serverSelect" -> UpdateServerSelect(mm, st, msg, env)
      [] msg.kind = "key" /\ mm.panelMode = "edit" -> handleEditUpdate(mm, st, msg.key, env)
      [] msg.kind \in {"key", "artistsFetched"} /\ mm.panelMode = "plex-artists" ->
            handleArtistBrowseUpdate(mm, st, msg, env)
      [] msg.kind \in {"key", "albumsFetched"} /\ mm.panelMode = "plex-albums" ->
            handleAlbumBrowseUpdate(mm, st, msg, env)
      [] msg.kind \in {"key", "playlistsFetched"} /\ mm.panelMode = "plex-playlists" ->
            handlePlaylistBrowseUpdate(mm, st, msg, env)
      [] msg.kind \in {"key", "serversFetched"} /\ mm.panelMode = "plex-servers" ->
            handleServerBrowseUpdate(mm, st, msg, env)
      [] msg.kind \in {"key", "playersFetched"} /\ mm.panelMode = "plex-players" ->
            handlePlayerBrowseUpdate(mm, st, msg, env)
      [] msg.kind = "key" -> UpdatePlaybackKey(mm, st, msg, env)
      [] msg.kind = "pollMsg" -> [Ret(mm, st, pollTimeline(mm), {}) EXCEPT !.tick = 1]
      [] msg.kind = "trackMsgWithState" -> UpdateTrackMsg(mm, st, msg)
      [] msg.kind = "playbackTriggered" -> UpdatePlaybackTriggered(mm, st, msg)
      [] msg.kind \in FetchedKinds -> Ret(mm, st, {}, {})
      [] OTHER -> Ret(UpdateActiveList(mm, msg), st, {}, {})

-----------------------------------------------------------------------------
(* The runtime: messages delivered to Update *)

Orders == {"callFirst", "copyFirst"}

\* what a handler leaves to chance, restricted to what the key can reach
KeyEnvs(key) ==
    {e \in [race : RaceOutcomes, saveOk : BOOLEAN, order : Orders] :
        /\ key \notin {"p", "n", "b", "h"} => e.race = "late"
        /\ key \notin {"tab", "enter", "d", "f"} => e.saveOk
        /\ key \notin {"enter", "r"} => e.order = "callFirst"}

SaveEnvs == {e \in [race : {"late"}, saveOk : BOOLEAN, order : {"callFirst"}] : TRUE}
NoEnv == [race |-> "late", saveOk |-> TRUE, order |-> "callFirst"]

\* the message a completed poll delivers
\* the timeline the closure of pollTimeline reads: the first of type music,
\* else the first, Nil for none
ChosenTimeline(timelines) ==
    IF \E i \in 1..Len(timelines) : timelines[i].Type = "music"
    THEN timelines[CHOOSE i \in 1..Len(timelines) :
                       /\ timelines[i].Type = "music"
                       /\ \A j \in 1..(i - 1) : timelines[j].Type # "music"]
    ELSE IF Len(timelines) > 0 THEN timelines[1] ELSE Nil

\* PollReply with the RequestID left out of the error results
PollReplyUntagged(c, resp) ==
    IF resp.err # ""
    THEN [kind |-> "trackMsgWithState", RequestID |-> 0, TrackText |-> "",
          IsPlaying |-> FALSE, Duration |-> 0, Position |-> 0, Volume |-> 0, cmd |-> c]
    ELSE [kind |-> "trackMsgWithState", RequestID |-> c.reqID, TrackText |-> "",
          IsPlaying |-> FALSE, Duration |-> 0, Position |-> 0, Volume |-> 0, cmd |-> c]

\* the message the closure of pollTimeline returns for a response
PollReply(c, resp) ==
    IF resp.err # ""
    THEN [kind |-> "trackMsgWithState", RequestID |-> c.reqID, TrackText |-> "",
          IsPlaying |-> FALSE, Duration |-> 0, Position |-> 0, Volume |-> 0, cmd |-> c]
    ELSE LET chosen == ChosenTimeline(resp.Timelines)
         IN  IF chosen = Nil
             THEN [kind |-> "trackMsgWithState", RequestID |-> c.reqID, TrackText |-> "",
                   IsPlaying |-> FALSE, Duration |-> 0, Position |-> 0, Volume |-> 0,
                   cmd |-> c]
             ELSE [kind |-> "trackMsgWithState", RequestID |-> c.reqID,
                   TrackText |-> IF chosen.Track.Title # ""
                                 THEN chosen.Track.GrandparentTitle \o " - "
                                        \o chosen.Track.Title \o " ("
                                        \o chosen.Track.ParentTitle \o ")"
                                 ELSE "",
                   IsPlaying |-> chosen.State = "playing",
                   Duration |-> chosen.Duration, Position |-> chosen.Time,
                   Volume |-> chosen.Volume, cmd |-> c]

PollMsgs(c) == {PollReply(c, resp) : resp \in PollResponses}

FetchKinds == {"fetchArtists", "fetchAlbums", "fetchPlaylists", "fetchServers", "fetchPlayers"}

FetchedKind(c) ==
    CASE c.kind = "fetchArtists" -> "artistsFetched"
      [] c.kind = "fetchAlbums" -> "albumsFetched"
      [] c.kind = "fetchPlaylists" -> "playlistsFetched"
      [] c.kind = "fetchServers" -> "serversFetched"
      [] OTHER -> "playersFetched"

FetchOutcomes(c) ==
    CASE c.kind = "fetchArtists" -> ArtistOutcomes
      [] c.kind = "fetchAlbums" -> AlbumOutcomes
      [] c.kind = "fetchPlaylists" -> PlaylistOutcomes
      [] c.kind = "fetchServers" -> ServerOutcomes
      [] OTHER -> PlayerOutcomes

\* the message a completed fetch delivers
FetchMsgs(c) ==
    {[kind |-> FetchedKind(c), items |-> o, err |-> "", cmd |-> c] : o \in FetchOutcomes(c)}
    \cup {[kind |-> FetchedKind(c), items |-> <<>>, err |-> FetchError, cmd |-> c]}

PlayKinds == {"playArtist", "playArtistRadio", "playAlbum", "playPlaylist",
              "favorite", "favoriteRadio", "triggerPlayback"}

PlaybackKind(c) ==
    CASE c.kind = "playAlbum" -> "albumPlayback"
      [] c.kind = "playPlaylist" -> "playlistPlayback"
      [] c.kind = "triggerPlayback" -> "playbackTriggered"
      [] OTHER -> "artistPlayback"

\* the message a completed playback command delivers
PlaybackMsgs(c) ==
    IF c.err # ""
    THEN {[kind |-> PlaybackKind(c), success |-> FALSE, err |-> c.err, cmd |-> c]}
    ELSE {[kind |-> PlaybackKind(c), success |-> TRUE, err |-> "", cmd |-> c],
          [kind |-> PlaybackKind(c), success |-> FALSE, err |-> PlayError, cmd |-> c]}

\* the message a completed selection delivers
SelectMsgs(c) ==
    CASE c.kind = "selectPlayer" ->
            {[kind |-> "playerSelect", success |-> TRUE, err |-> "", player |-> c.item, cmd |-> c]}
      [] c.err # "" ->
            {[kind |-> "serverSelect", success |-> FALSE, err |-> c.err, server |-> NoItem,
              libraries |-> <<>>, cmd |-> c]}
      [] OTHER ->
            {[kind |-> "serverSelect", success |-> TRUE, err |-> "", server |-> c.item,
              libraries |-> libs, cmd |-> c] : libs \in LibraryOutcomes}

\* the runtime takes what Update returned: the model, and the commands, which
\* it starts; done is the command whose completion produced msg
Commit(r, rest, msg) ==
    /\ running
    /\ Cardinality(rest) <= MaxInflight
    /\ m' = r.m
    /\ store' = r.store
    /\ inflight' = rest
    /\ ticks' = (IF msg.kind = "pollMsg" THEN ticks - 1 ELSE ticks) + r.tick
    /\ lastMsg' = msg
    /\ lastCmds' = r.cmds
    /\ lastHttp' = r.http
    /\ running' = ~r.quit
    /\ nKeys' = IF msg.kind = "key" THEN nKeys + 1 ELSE nKeys

Started(r, done) == (inflight \ done) \cup r.cmds

\* one turn of the event loop: Update handles msg
Handle(r, msg, done) == Commit(r, Started(r, done), msg)

Deliver(msg, env, done) == Handle(Update(m, store, msg, env), msg, done)

\* the list shown in the panel, Nil in the edit form
ActiveList(mm) ==
    CASE mm.panelMode = "playback" -> mm.playbackList
      [] mm.panelMode = "plex-artists" -> mm.artistList
      [] mm.panelMode = "plex-albums" -> mm.albumList
      [] mm.panelMode = "plex-playlists" -> mm.playlistList
      [] mm.panelMode = "plex-servers" -> mm.serverList
      [] mm.panelMode = "plex-players" -> mm.playerList
      [] OTHER -> Nil

\* the keys the operator presses while the edit form has the focus: one
\* character stands for all of them
TextKeys == {"enter", "esc", "tab", "x"}

KeysIn(mm) ==
    IF mm.panelMode = "edit" THEN TextKeys ELSE Keys

\* the operator presses a key
KeyPress ==
    /\ nKeys < MaxKeys
    /\ \E key \in KeysIn(m) : \E env \in KeyEnvs(key) :
            Deliver([kind |-> "key", key |-> key], env, {})

\* the two-second timer fires
Tick ==
    /\ ticks > 0
    /\ Deliver([kind |-> "pollMsg"], NoEnv, {})

\* a timeline poll completes
PollResult ==
    \E c \in inflight :
        /\ c.kind = "poll"
        /\ \E msg \in PollMsgs(c) : Deliver(msg, NoEnv, {c})

\* a library, server or player fetch completes
FetchResult ==
    \E c \in inflight :
        /\ c.kind \in FetchKinds
        /\ \E msg \in FetchMsgs(c) : Deliver(msg, NoEnv, {c})

\* a playback request completes
PlaybackResult ==
    \E c \in inflight :
        /\ c.kind \in PlayKinds
        /\ \E msg \in PlaybackMsgs(c) : Deliver(msg, NoEnv, {c})

\* a server or player selection completes
SelectResult ==
    \E c \in inflight :
        /\ c.kind \in {"selectServer", "selectPlayer"}
        /\ \E msg \in SelectMsgs(c) : \E env \in SaveEnvs : Deliver(msg, env, {c})

\* main: the model is built from the settings files, Init returns the first
\* poll and the first tick
InitStore(cfg, manager) ==
    [config |-> cfg, favorites |-> DefaultFavorites, manager |-> manager]

Init ==
    \E cfg \in InitConfigs : \E authenticated \in BOOLEAN : \E manager \in Managers :
        /\ m = NewUiManager(cfg, LoadFavorites(InitStore(cfg, manager)), authenticated)
        /\ store = InitStore(cfg, manager)
        /\ inflight = pollTimeline(NewUiManager(cfg, DefaultFavorites, authenticated))
        /\ ticks = 1
        /\ lastMsg = [kind |-> "init"]
        /\ lastCmds = pollTimeline(NewUiManager(cfg, DefaultFavorites, authenticated))
        /\ lastHttp = {}
        /\ running = TRUE
        /\ nKeys = 0

Next ==
    \/ KeyPress
    \/ Tick
    \/ PollResult
    \/ FetchResult
    \/ PlaybackResult
    \/ SelectResult

Spec == Init /\ [][Next]_vars

-----------------------------------------------------------------------------
(* Update as a function: a model in any panel and any epoch handles one     *)
(* message of any kind, and the commands it returned run to completion      *)

PanelModes == {"playback", "edit", "plex-artists", "plex-albums", "plex-playlists",
               "plex-servers", "plex-players"}

\* the model after the panel was opened and its list loaded
ModelIn(mm, st, mode) ==
    LET loaded(kind, items) == [kind |-> kind, items |-> items, err |-> ""]
    IN CASE mode = "plex-artists" ->
                handleArtistBrowseUpdate(initArtistBrowse(mm), st,
                    loaded("artistsFetched", CHOOSE o \in ArtistOutcomes : o # <<>>), NoEnv).m
         [] mode = "plex-albums" ->
                handleAlbumBrowseUpdate(initAlbumBrowse(mm), st,
                    loaded("albumsFetched", CHOOSE o \in AlbumOutcomes : o # <<>>), NoEnv).m
         [] mode = "plex-playlists" ->
                handlePlaylistBrowseUpdate(initPlaylistBrowse(mm), st,
                    loaded("playlistsFetched", CHOOSE o \in PlaylistOutcomes : o # <<>>), NoEnv).m
         [] mode = "plex-servers" ->
                handleServerBrowseUpdate(initServerBrowse(mm), st,
                    loaded("serversFetched", CHOOSE o \in ServerOutcomes : o # <<>>), NoEnv).m
         [] mode = "plex-players" ->
                handlePlayerBrowseUpdate(initPlayerBrowse(mm), st,
                    loaded("playersFetched", CHOOSE o \in PlayerOutcomes : o # <<>>), NoEnv).m
         [] OTHER -> mm

\* what the operator has entered in the edit form when Enter is pressed: the
\* form was opened to add (index -1) or to edit the first favorite, and each
\* text field is empty or holds a text ("12345" is the key of the favorites
\* the program creates by default)
EditForms ==
    [index : {-1, 0}, name : {"", "x"}, key : {"", "12345"}, typeSelect : {0, 1, 2}]

NoForm == [index |-> -1, name |-> "", key |-> "", typeSelect |-> 0]

\* the model after the form was opened and filled in
FormIn(mm, form) ==
    [initEditMode(mm, "playback", form.index)
        EXCEPT !.editInputs = <<form.name, form.key>>, !.typeSelect = form.typeSelect]

\* the model after "/" was pressed in the panel: its list is filtering
StartFilter(mm) == UpdateActiveList(mm, [kind |-> "key", key |-> "/"])

\* a command as the closure of kind `kind` built from mm would be
AnyCmd(kind, mm) == NewCmd(kind, mm, "", "", NoItem, TRUE)

\* the messages Update can be handed, whatever produced them
AnyMsgs(mm) ==
    {[kind |-> "key", key |-> key] : key \in KeysIn(mm)}
    \cup {[kind |-> "pollMsg"]}
    \cup UNION {PollMsgs([AnyCmd("poll", mm) EXCEPT !.reqID = e]) : e \in 0..MaxEpoch}
    \cup UNION {FetchMsgs(AnyCmd(k, mm)) : k \in FetchKinds}
    \cup UNION {PlaybackMsgs(AnyCmd(k, mm)) : k \in PlayKinds}
    \cup UNION {PlaybackMsgs([AnyCmd(k, mm) EXCEPT !.err = NoServerSelected]) : k \in PlayKinds}
    \cup UNION {SelectMsgs([AnyCmd("selectPlayer", mm) EXCEPT !.item = pl]) : pl \in {PlA, PlB}}
    \cup UNION {SelectMsgs([AnyCmd("selectServer", mm) EXCEPT !.item = sv]) : sv \in {SrvA, SrvB}}
    \cup SelectMsgs([AnyCmd("selectServer", mm) EXCEPT !.err = NoServerSelected])

MsgEnvs(msg) == IF msg.kind = "key" THEN KeyEnvs(msg.key) ELSE SaveEnvs

\* Update handles one message
UpdateAny ==
    /\ lastMsg.kind = "init"
    /\ \E msg \in AnyMsgs(m) : \E env \in MsgEnvs(msg) : Deliver(msg, env, {})

PlaybackURLs == {"/library/metadata/101"}

\* a caller builds the generic playback command for the model it holds
TriggerPlayback ==
    /\ lastMsg.kind = "init"
    /\ \E fullURL \in PlaybackURLs :
        /\ inflight' = inflight \cup triggerPlaybackCmd(m, fullURL)
        /\ lastMsg' = [kind |-> "call", key |-> fullURL]
        /\ lastCmds' = triggerPlaybackCmd(m, fullURL)
        /\ lastHttp' = {}
    /\ UNCHANGED <<m, store, ticks, running, nKeys>>

InitUpdate ==
    \E cfg \in InitConfigs : \E authenticated \in BOOLEAN :
    \E epoch \in 0..MaxEpoch : \E mode \in PanelModes : \E manager \in Managers :
    \E form \in EditForms : \E filtering \in BOOLEAN :
        LET st == InitStore(cfg, manager)
            m0 == [NewUiManager(cfg, LoadFavorites(InitStore(cfg, manager)), authenticated)
                        EXCEPT !.timelineRequestID = epoch]
        IN /\ mode \in {"playback", "edit"} \/ authenticated
           /\ mode # "edit" => form = NoForm
           /\ mode = "edit" => ~filtering
           /\ m = CASE mode = "edit" -> FormIn(m0, form)
                    [] filtering -> StartFilter(ModelIn(m0, st, mode))
                    [] OTHER -> ModelIn(m0, st, mode)
           /\ store = st
           /\ inflight = {}
           /\ ticks = 1
           /\ lastMsg = [kind |-> "init"]
           /\ lastCmds = {}
           /\ lastHttp = {}
           /\ running = TRUE
           /\ nKeys = 0

NextUpdate ==
    \/ UpdateAny
    \/ TriggerPlayback
    \/ Tick
    \/ PollResult
    \/ FetchResult
    \/ PlaybackResult
    \/ SelectResult

SpecUpdate == InitUpdate /\ [][NextUpdate]_vars

-----------------------------------------------------------------------------
(* The favorites table as its manager is called: Add and Remove applied to  *)
(* a table, in any order                                                    *)

\* the items a caller adds
AddItems == [Name : {"x", "y"}, Type : {"artist", "album"}, MetadataKey : {"12345", "101"}]

\* the error of a statement the database refuses
ExecError == "database is locked"

\* a caller adds a favorite; the call before it is remembered to tell the
\* second of two calls for one (type, key) pair, with the table the first found
AddFavorite ==
    \E item \in AddItems : \E ok \in BOOLEAN :
        /\ lastMsg.kind \in {"start", "Add", "Remove"}
        /\ Len(Add(store.favorites, item)) <= MaxRows
        /\ store' = IF ok THEN [store EXCEPT !.favorites = Add(store.favorites, item)] ELSE store
        /\ lastMsg' = [kind |-> "Add", item |-> item, err |-> IF ok THEN "" ELSE ExecError,
                       twice |-> /\ lastMsg.kind = "Add" /\ lastMsg.err = ""
                                 /\ SamePair(lastMsg.item, item),
                       before |-> IF /\ lastMsg.kind = "Add" /\ lastMsg.err = ""
                                     /\ SamePair(lastMsg.item, item)
                                  THEN lastMsg.before ELSE store.favorites]
        /\ UNCHANGED <<m, inflight, ticks, lastCmds, lastHttp, running, nKeys>>

\* a caller removes a favorite
RemoveFavorite ==
    \E item \in AddItems :
        /\ lastMsg.kind \in {"start", "Add", "Remove"}
        /\ store' = [store EXCEPT !.favorites = Remove(store.favorites, item.Type, item.MetadataKey)]
        /\ lastMsg' = [kind |-> "Remove", item |-> [item EXCEPT !.Name = ""], err |-> "",
                       twice |-> FALSE, before |-> store.favorites]
        /\ UNCHANGED <<m, inflight, ticks, lastCmds, lastHttp, running, nKeys>>

\* the table is empty or holds the favorites migrated from favorites.json
InitFavorites ==
    \E rows \in {<<>>, DefaultFavorites} :
        /\ store = [InitStore(DefaultConfig, "database") EXCEPT !.favorites = rows]
        /\ m = NewUiManager(DefaultConfig, List(rows), FALSE)
        /\ inflight = {}
        /\ ticks = 0
        /\ lastMsg = [kind |-> "start"]
        /\ lastCmds = {}
        /\ lastHttp = {}
        /\ running = TRUE
        /\ nKeys = 0

NextFavorites ==
    \/ AddFavorite
    \/ RemoveFavorite

SpecFavorites == InitFavorites /\ [][NextFavorites]_vars

-----------------------------------------------------------------------------
(* Update of package main handling a server selection                       *)

\* main.go, Update, case serverSelectMsg: the first library is read without
\* a test of the length, which panics for a list without entries
UpdateServerSelectMain(mm, st, msg, env) ==
    LET libs == msg.libraries
        m1 == [mm EXCEPT !.config.ServerID = msg.server.clientIdentifier,
                         !.config.PlexServerAddr = msg.server.address \o ":" \o msg.server.port,
                         !.config.PlexServerName = msg.server.title,
                         !.config.PlexLibraries = libs]
        found == \E i \in 1..Len(libs) : libs[i].Title = m1.config.PlexLibraryName
        m2 == IF found
              THEN m1
              ELSE [m1 EXCEPT !.config.PlexLibraryName = libs[1].Title,
                              !.config.PlexLibraryID = libs[1].Key]
        m3 == [m2 EXCEPT !.lastCommand = "Server Selected", !.status = "",
                         !.panelMode = "playback"]
    IN IF msg.err # ""
       THEN [m |-> [mm EXCEPT !.status = "Error selecting server: " \o msg.err],
             store |-> st, panic |-> FALSE]
       ELSE IF ~msg.success
            THEN [m |-> mm, store |-> st, panic |-> FALSE]
            ELSE IF ~found /\ Len(libs) = 0
                 THEN [m |-> mm, store |-> st, panic |-> TRUE]
                 ELSE [m |-> m3, store |-> SaveConfig(st, m3.config, env.saveOk),
                       panic |-> FALSE]

\* the messages selectServerCmd's closures return
ServerSelectMsgs(mm) ==
    UNION {SelectMsgs([AnyCmd("selectServer", mm) EXCEPT !.item = sv]) : sv \in {SrvA, SrvB}}
    \cup SelectMsgs([AnyCmd("selectServer", mm) EXCEPT !.err = NoServerSelected])

\* Update of package main handles a serverSelectMsg; a panic ends the program
ServerSelectedMain ==
    /\ running
    /\ lastMsg.kind = "init"
    /\ \E msg \in ServerSelectMsgs(m) : \E env \in SaveEnvs :
        LET u == UpdateServerSelectMain(m, store, msg, env)
        IN /\ m' = u.m
           /\ store' = u.store
           /\ running' = ~u.panic
           /\ lastMsg' = msg
           /\ lastCmds' = {}
           /\ lastHttp' = {}
    /\ UNCHANGED <<inflight, ticks, nKeys>>

SpecMain == InitUpdate /\ [][ServerSelectedMain]_vars

-----------------------------------------------------------------------------
(* Playback URLs. A URL text is a sequence of pieces of text: the two       *)
(* control-plane prefixes, pieces of authority and path, "?", "&", keys     *)
(* with their "=", and values.                                              *)

plexListenBaseURL == "https://listen.plex.tv"
plexListenPlainURL == "http://listen.plex.tv"

\* the keys of the query, in the order of sort.Strings, in which Encode
\* writes them
QueryKeys == <<"playlistID=", "redirect=", "shuffle=", "source=", "type=", "uri=", "x=">>

\* texts that url.QueryEscape changes, each with its escaped form
Escapes ==
    {<<plexListenBaseURL, "https%3A%2F%2Flisten.plex.tv">>,
     <<plexListenPlainURL, "http%3A%2F%2Flisten.plex.tv">>,
     <<"server://srv/com.plexapp.plugins.library/library/metadata/301",
       "server%3A%2F%2Fsrv%2Fcom.plexapp.plugins.library%2Flibrary%2Fmetadata%2F301">>,
     <<"server://srv/com.plexapp.plugins.library/library/metadata/101/station/uuid",
       "server%3A%2F%2Fsrv%2Fcom.plexapp.plugins.library%2Flibrary%2Fmetadata%2F101%2Fstation%2Fuuid">>}

\* url.QueryEscape
QueryEscape(v) ==
    [i \in 1..Len(v) |->
        IF \E p \in Escapes : p[1] = v[i]
        THEN (CHOOSE p \in Escapes : p[1] = v[i])[2]
        ELSE v[i]]

\* url.QueryUnescape
QueryUnescape(v) ==
    [i \in 1..Len(v) |->
        IF \E p \in Escapes : p[2] = v[i]
        THEN (CHOOSE p \in Escapes : p[2] = v[i])[1]
        ELSE v[i]]

\* url.Parse: what precedes the first "?" and the raw query after it; a path
\* with an invalid escape is refused
Parse(urlStr) ==
    LET marks == {i \in 1..Len(urlStr) : urlStr[i] = "?"}
        first == IF marks = {} THEN Len(urlStr) + 1
                 ELSE CHOOSE i \in marks : \A j \in marks : i <= j
        head == SubSeq(urlStr, 1, first - 1)
    IN [err |-> \E i \in 1..Len(head) : head[i] = "/%zz",
        head |-> head,
        RawQuery |-> SubSeq(urlStr, first + 1, Len(urlStr))]

\* URL.String
String(u) ==
    IF u.RawQuery = <<>> THEN u.head ELSE u.head \o <<"?">> \o u.RawQuery

RECURSIVE SplitQuery(_)
\* the pairs of a raw query, split at "&"
SplitQuery(raw) ==
    IF raw = <<>>
    THEN <<>>
    ELSE LET amps == {i \in 1..Len(raw) : raw[i] = "&"}
             first == IF amps = {} THEN Len(raw) + 1
                      ELSE CHOOSE i \in amps : \A j \in amps : i <= j
         IN <<SubSeq(raw, 1, first - 1)>> \o SplitQuery(SubSeq(raw, first + 1, Len(raw)))

\* URL.Query: for each key its unescaped values in the order of the text
Query(rawQuery) ==
    LET pairs == SplitQuery(rawQuery)
        value(pair) == QueryUnescape(Tail(pair))
        valuesOf(key) ==
            LET own == SelectSeq(pairs, LAMBDA pair : pair # <<>> /\ pair[1] = key)
            IN [i \in 1..Len(own) |-> value(own[i])]
    IN [i \in 1..Len(QueryKeys) |-> valuesOf(QueryKeys[i])]

RECURSIVE EncodeFrom(_, _, _)
\* the pairs Encode writes from key i, value j on
EncodeFrom(q, i, j) ==
    IF i > Len(QueryKeys)
    THEN <<>>
    ELSE IF j > Len(q[i])
         THEN EncodeFrom(q, i + 1, 1)
         ELSE LET rest == EncodeFrom(q, i, j + 1)
                  pair == <<QueryKeys[i]>> \o QueryEscape(q[i][j])
              IN IF rest = <<>> THEN pair ELSE pair \o <<"&">> \o rest

\* Values.Encode: the keys sorted, the values escaped
Encode(q) == EncodeFrom(q, 1, 1)

\* the place of the shuffle key in QueryKeys
ShuffleKey == CHOOSE i \in 1..Len(QueryKeys) : QueryKeys[i] = "shuffle="

\* ApplyShuffle that writes shuffle=0 where the parameter is to be removed
ApplyShuffleZero(urlStr, shuffle) ==
    LET u == Parse(urlStr)
        q == Query(u.RawQuery)
        q2 == [q EXCEPT ![ShuffleKey] = IF shuffle THEN << <<"1">> >> ELSE << <<"0">> >>]
    IN IF u.err
       THEN [url |-> urlStr, err |-> TRUE]
       ELSE [url |-> String([u EXCEPT !.RawQuery = Encode(q2)]), err |-> FALSE]

\* ApplyShuffle that adds the value to the ones the URL carries
ApplyShuffleAdd(urlStr, shuffle) ==
    LET u == Parse(urlStr)
        q == Query(u.RawQuery)
        q2 == IF shuffle
              THEN [q EXCEPT ![ShuffleKey] = Append(q[ShuffleKey], <<"1">>)]
              ELSE [q EXCEPT ![ShuffleKey] = <<>>]
    IN IF u.err
       THEN [url |-> urlStr, err |-> TRUE]
       ELSE [url |-> String([u EXCEPT !.RawQuery = Encode(q2)]), err |-> FALSE]

\* ApplyShuffle
ApplyShuffle(urlStr, shuffle) ==
    LET u == Parse(urlStr)
        q == Query(u.RawQuery)
        q2 == IF shuffle
              THEN [q EXCEPT ![ShuffleKey] = << <<"1">> >>]
              ELSE [q EXCEPT ![ShuffleKey] = <<>>]
    IN IF u.err
       THEN [url |-> urlStr, err |-> TRUE]
       ELSE [url |-> String([u EXCEPT !.RawQuery = Encode(q2)]), err |-> FALSE]

\* strings.Replace(s, old, new, 1)
Replace(s, old, new) ==
    LET hits == {i \in 1..Len(s) : s[i] = old}
    IN IF hits = {}
       THEN s
       ELSE [s EXCEPT ![CHOOSE i \in hits : \A j \in hits : i <= j] = new]

\* the URL SendPlaybackURL requests
SendPlaybackURL(serverIP, fullURL, shuffle) ==
    LET applied == ApplyShuffle(fullURL, shuffle)
        modifiedURL == IF applied.err THEN fullURL ELSE applied.url
        localURL == Replace(modifiedURL, plexListenBaseURL,
                            "http://" \o serverIP \o ":32500")
    IN Replace(localURL, plexListenPlainURL, "http://" \o serverIP \o ":32500")

\* the URL triggerPlayback requests
triggerPlayback(serverIP, fullURL) ==
    LET localURL == Replace(fullURL, plexListenBaseURL, "http://" \o serverIP \o ":32500")
    IN Replace(localURL, plexListenPlainURL, "http://" \o serverIP \o ":32500")

\* PlaybackURLBuilder.BuildPlaylistURL, server "srv", playlist 301
BuildPlaylistURL ==
    <<plexListenBaseURL, "/player/playback/createPlayQueue", "?", "source=", "srv", "&",
      "uri=", "server%3A%2F%2Fsrv%2Fcom.plexapp.plugins.library%2Flibrary%2Fmetadata%2F301",
      "&", "playlistID=", "301", "&", "type=", "audio">>

\* PlaybackURLBuilder.BuildPlayQueueURL, server "srv", item 301
BuildPlayQueueURL ==
    <<plexListenBaseURL, "/player/playback/createPlayQueue", "?",
      "uri=", "server%3A%2F%2Fsrv%2Fcom.plexapp.plugins.library%2Flibrary%2Fmetadata%2F301">>

\* PlaybackURLBuilder.BuildArtistRadioURL, server "srv", artist 101
BuildArtistRadioURL ==
    <<plexListenBaseURL, "/player/playback/playMedia", "?", "type=", "10", "&",
      "type=", "audio", "&", "uri=",
      "server%3A%2F%2Fsrv%2Fcom.plexapp.plugins.library%2Flibrary%2Fmetadata%2F101%2Fstation%2Fuuid">>

\* the URLs handed to the functions: the builders' and the ones a favorites
\* or playback file can hold
FullURLs ==
    LET heads == {<<plexListenBaseURL, "/player/playback/playMedia">>,
                  <<plexListenPlainURL, "/player/playback/playMedia">>,
                  <<plexListenBaseURL, ".example.com", "/player/playback/playMedia">>,
                  <<plexListenBaseURL, "/go/", plexListenPlainURL>>,
                  <<"https://example.com", "/go/", plexListenBaseURL>>,
                  <<plexListenBaseURL, "/%zz">>}
        queries == {<<>>,
                    <<"?", "x=", "1">>,
                    <<"?", "x=", "1", "&", "shuffle=", "1">>,
                    <<"?", "shuffle=", "0", "&", "x=", "1", "&", "shuffle=", "1">>,
                    <<"?", "x=", "1", "&", "redirect=", plexListenPlainURL>>,
                    <<"?", "redirect=", "https%3A%2F%2Flisten.plex.tv", "&", "x=", "1">>}
    IN {h \o q : h \in heads, q \in queries}
       \cup {BuildPlaylistURL, BuildPlayQueueURL, BuildArtistRadioURL}

ServerIPs == {"192.168.1.50", "127.0.0.1"}

\* a caller applies ApplyShuffle to the URL it holds
ApplyShuffleCall ==
    \E shuffle \in BOOLEAN :
        /\ lastMsg.kind \in {"url", "ApplyShuffle"}
        /\ Len(lastMsg.calls) < MaxCalls
        /\ lastMsg' = [kind |-> "ApplyShuffle", fullURL |-> lastMsg.fullURL,
                       url |-> ApplyShuffle(lastMsg.url, shuffle).url,
                       calls |-> Append(lastMsg.calls, shuffle), serverIP |-> ""]
        /\ UNCHANGED <<m, inflight, ticks, lastCmds, lastHttp, store, running, nKeys>>

\* a playback command calls SendPlaybackURL
SendPlaybackURLCall ==
    \E serverIP \in ServerIPs : \E shuffle \in BOOLEAN :
        /\ lastMsg.kind = "url"
        /\ lastMsg' = [kind |-> "SendPlaybackURL", fullURL |-> lastMsg.fullURL,
                       url |-> SendPlaybackURL(serverIP, lastMsg.fullURL, shuffle),
                       calls |-> <<shuffle>>, serverIP |-> serverIP]
        /\ lastHttp' = {SendPlaybackURL(serverIP, lastMsg.fullURL, shuffle)}
        /\ UNCHANGED <<m, inflight, ticks, lastCmds, store, running, nKeys>>

\* a playback command calls triggerPlayback
TriggerPlaybackCall ==
    \E serverIP \in ServerIPs :
        /\ lastMsg.kind = "url"
        /\ lastMsg' = [kind |-> "triggerPlayback", fullURL |-> lastMsg.fullURL,
                       url |-> triggerPlayback(serverIP, lastMsg.fullURL),
                       calls |-> <<>>, serverIP |-> serverIP]
        /\ lastHttp' = {triggerPlayback(serverIP, lastMsg.fullURL)}
        /\ UNCHANGED <<m, inflight, ticks, lastCmds, store, running, nKeys>>

InitURL ==
    \E fullURL \in FullURLs :
        /\ lastMsg = [kind |-> "url", fullURL |-> fullURL, url |-> fullURL,
                      calls |-> <<>>, serverIP |-> ""]
        /\ store = InitStore(DefaultConfig, "json")
        /\ m = NewUiManager(DefaultConfig, DefaultFavorites, FALSE)
        /\ inflight = {}
        /\ ticks = 0
        /\ lastCmds = {}
        /\ lastHttp = {}
        /\ running = TRUE
        /\ nKeys = 0

NextURL ==
    \/ ApplyShuffleCall
    \/ SendPlaybackURLCall
    \/ TriggerPlaybackCall

SpecURL == InitURL /\ [][NextURL]_vars

-----------------------------------------------------------------------------
(* The settings files as Save writes them. A file holds the pieces of text  *)
(* written so far; the process can be interrupted between any two steps.    *)

\* json.MarshalIndent: the text of a value, written in three pieces
Marshal(v) == <<"{", v, "}">>

\* the functions that write a settings file, each with the values it is
\* handed and the path os.WriteFile is called with
SaveCalls ==
    {[kind |-> k, path |-> "config", data |-> Marshal(cfg)] :
        k \in {"Manager.Save", "saveServerConfig"}, cfg \in InitConfigs}
    \cup {[kind |-> "FavoritesManager.Save", path |-> "tmp", data |-> Marshal(favs)] :
            favs \in {<<>>, DefaultFavorites, Tail(DefaultFavorites)}}

\* a caller saves the configuration or the favorites
SaveCall ==
    /\ running
    /\ lastMsg.kind = "idle"
    /\ nKeys < MaxSaves
    /\ \E call \in SaveCalls :
        lastMsg' = [kind |-> call.kind, path |-> call.path, data |-> call.data,
                    pc |-> "open",
                    before |-> IF call.path = "config" THEN store.config
                               ELSE store.favorites]
    /\ nKeys' = nKeys + 1
    /\ UNCHANGED <<m, inflight, ticks, lastCmds, lastHttp, store, running>>

\* os.WriteFile opens the path with O_TRUNC: the file is empty
OpenFile ==
    /\ running
    /\ lastMsg.kind # "idle"
    /\ lastMsg.pc = "open"
    /\ store' = [store EXCEPT ![lastMsg.path] = <<>>]
    /\ lastMsg' = [lastMsg EXCEPT !.pc = "write"]
    /\ UNCHANGED <<m, inflight, ticks, lastCmds, lastHttp, running, nKeys>>

\* os.WriteFile writes the next piece of the data; after the last piece the
\* configuration's Save returns, the favorites' Save goes on to the rename
Write ==
    /\ running
    /\ lastMsg.kind # "idle"
    /\ lastMsg.pc = "write"
    /\ LET file == Append(store[lastMsg.path], lastMsg.data[Len(store[lastMsg.path]) + 1])
       IN /\ store' = [store EXCEPT ![lastMsg.path] = file]
          /\ lastMsg' = IF Len(file) < Len(lastMsg.data)
                        THEN lastMsg
                        ELSE IF lastMsg.path = "tmp"
                             THEN [lastMsg EXCEPT !.pc = "rename"]
                             ELSE [kind |-> "idle"]
    /\ UNCHANGED <<m, inflight, ticks, lastCmds, lastHttp, running, nKeys>>

\* FavoritesManager.Save renames the temporary file to favorites.json
Rename ==
    /\ running
    /\ lastMsg.kind # "idle"
    /\ lastMsg.pc = "rename"
    /\ store' = [store EXCEPT !.favorites = store.tmp, !.tmp = <<>>]
    /\ lastMsg' = [kind |-> "idle"]
    /\ UNCHANGED <<m, inflight, ticks, lastCmds, lastHttp, running, nKeys>>

\* the process is interrupted
Interrupt ==
    /\ running
    /\ running' = FALSE
    /\ UNCHANGED <<m, inflight, ticks, lastMsg, lastCmds, lastHttp, store, nKeys>>

\* the files hold what earlier saves wrote
InitSave ==
    \E cfg \in InitConfigs : \E favs \in {<<>>, DefaultFavorites} :
        /\ store = [config |-> Marshal(cfg), favorites |-> Marshal(favs), tmp |-> <<>>,
                    manager |-> "json"]
        /\ m = NewUiManager(cfg, favs, FALSE)
        /\ inflight = {}
        /\ ticks = 0
        /\ lastMsg = [kind |-> "idle"]
        /\ lastCmds = {}
        /\ lastHttp = {}
        /\ running = TRUE
        /\ nKeys = 0

NextSave ==
    \/ SaveCall
    \/ OpenFile
    \/ Write
    \/ Rename
    \/ Interrupt

SpecSave == InitSave /\ [][NextSave]_vars

-----------------------------------------------------------------------------
(* The browse lists: the operator moves down the servers list and presses   *)
(* Enter on servers, or moves down the artists list and presses 'f' on      *)
(* artists; the selections complete in any order                            *)

\* the operator presses Enter or Down in the servers list
ServerKeyPress ==
    /\ m.panelMode = "plex-servers"
    /\ nKeys < MaxPicks
    /\ \E key \in {"enter", "down"} : \E env \in KeyEnvs(key) :
            Deliver([kind |-> "key", key |-> key], env, {})

\* the operator presses 'f' or Down in the artists list
ArtistKeyPress ==
    /\ m.panelMode = "plex-artists"
    /\ nKeys < MaxPicks
    /\ \E key \in {"f", "down"} : \E env \in KeyEnvs(key) :
            Deliver([kind |-> "key", key |-> key], env, {})

\* the servers list or the artists list is shown, loaded
InitBrowse ==
    /\ InitUpdate
    /\ m.panelMode \in {"plex-servers", "plex-artists"}

NextBrowse ==
    \/ ServerKeyPress
    \/ ArtistKeyPress
    \/ SelectResult

SpecBrowse == InitBrowse /\ [][NextBrowse]_vars

-----------------------------------------------------------------------------
(* Tab pressed in a row, on a configuration with any list of libraries and  *)
(* any selected library                                                     *)

\* the library lists a configuration can hold: of any length up to MaxLibs,
\* keys repeated or not
LibraryLists == UNION {[1..n -> {LibMusic1, LibJazz2, LibMusic3}] : n \in 0..MaxLibs}

\* the configurations Tab is pressed on: the selected library is in the list
\* or not ("15" is the key of the default configuration)
CycleConfigs ==
    {[SavedConfig EXCEPT !.PlexLibraries = libs, !.PlexLibraryID = id] :
        libs \in LibraryLists, id \in {"1", "2", "3", "15"}}

\* the operator presses Tab
CycleKey ==
    /\ nKeys < MaxCycles
    /\ \E env \in KeyEnvs("tab") : Deliver([kind |-> "key", key |-> "tab"], env, {})

\* the playback panel or the artists list is shown
InitCycle ==
    \E cfg \in CycleConfigs : \E mode \in {"playback", "plex-artists"} :
        /\ m = ModelIn(NewUiManager(cfg, DefaultFavorites, TRUE), InitStore(cfg, "json"), mode)
        /\ store = InitStore(cfg, "json")
        /\ inflight = {}
        /\ ticks = 1
        /\ lastMsg = [kind |-> "init"]
        /\ lastCmds = {}
        /\ lastHttp = {}
        /\ running = TRUE
        /\ nKeys = 0

NextCycle ==
    \/ CycleKey
    \/ FetchResult

SpecCycle == InitCycle /\ [][NextCycle]_vars

-----------------------------------------------------------------------------
(* Properties *)

Snapshot(mm) ==
    [TrackText |-> mm.currentTrack, IsPlaying |-> mm.isPlaying, Duration |-> mm.durationMs,
     Position |-> mm.positionMs, Volume |-> mm.volume]

\* C1: Update overwrites the playback snapshot with a poll result's values
\* exactly when the result's RequestID equals the model's timelineRequestID;
\* a result of another epoch changes no field of the model, sets no status
\* and returns no command.
C1_PollAppliedIffCurrentEpoch ==
    [][lastMsg'.kind = "trackMsgWithState" =>
        /\ lastCmds' = {} /\ lastHttp' = {} /\ store' = store /\ running'
        /\ lastMsg'.RequestID = m.timelineRequestID =>
                m' = [m EXCEPT !.currentTrack = lastMsg'.TrackText,
                               !.isPlaying = lastMsg'.IsPlaying,
                               !.durationMs = lastMsg'.Duration,
                               !.positionMs = lastMsg'.Position,
                               !.volume = lastMsg'.Volume]
        /\ lastMsg'.RequestID # m.timelineRequestID => m' = m]_vars

\* a result that reports a playing track arrived with a stale RequestID and
\* the model still shows nothing playing
C1_StaleResultDiscarded ==
    /\ lastMsg.kind = "trackMsgWithState"
    /\ lastMsg.RequestID # m.timelineRequestID
    /\ lastMsg.IsPlaying
    /\ Snapshot(m) = NeutralSnapshot

\* C2: once the active player has changed, the result of a poll issued
\* against the previous player is never applied to the playback snapshot.
C2_NoPollOfPreviousPlayerApplied ==
    [][(/\ lastMsg'.kind = "trackMsgWithState"
        /\ m.selected # ""
        /\ lastMsg'.cmd.selected # m.selected)
          => Snapshot(m') = Snapshot(m)]_vars

\* C3: timelineRequestID never decreases, and every transition that changes
\* m.selected increments it.
C3_EpochIncrementedOnPlayerChange ==
    [][/\ m'.timelineRequestID >= m.timelineRequestID
       /\ m'.selected # m.selected => m'.timelineRequestID > m.timelineRequestID]_vars

\* C4: an albums fetch result that arrives while the playback panel is shown
\* leaves the favorites list alone, keeps the program running, and is stored
\* in the album list, which the Albums panel then shows.
C4_LateAlbumsKeptForAlbumsPanel ==
    [][(lastMsg'.kind = "albumsFetched" /\ lastMsg'.err = "" /\ m.panelMode = "playback")
          => /\ m'.playbackList = m.playbackList
             /\ running'
             /\ m'.albumList.items = AlbumItems(lastMsg'.items)]_vars

PlaybackResultKinds == {"artistPlayback", "albumPlayback", "playlistPlayback", "playbackTriggered"}

\* C5: every playback result handed to Update, in any panel, is shown: a
\* success sets the success status, a failure puts the error text in the
\* status, and the program keeps running.
C5_PlaybackResultShown ==
    [][lastMsg'.kind \in PlaybackResultKinds =>
        /\ running'
        /\ lastMsg'.success => m'.status = "Playback triggered successfully"
        /\ ~lastMsg'.success => m'.status \in {lastMsg'.err, "Playback error: " \o lastMsg'.err}]_vars

\* the key is taken as a command of the panel: no text field has the focus
TakenAsCommand(mm, msg) ==
    /\ msg.kind = "key"
    /\ ActiveList(mm) # Nil
    /\ ActiveList(mm).filterState # "filtering"

\* the message starts playback of a favorite, an artist, an album, a playlist
\* or a radio station
TriggersPlayback(mm, msg) ==
    \/ msg.kind = "call"
    \/ /\ TakenAsCommand(mm, msg)
       /\ SelectedItem(ActiveList(mm)) # Nil
       /\ \/ /\ mm.panelMode = "playback" /\ msg.key = "enter"
             /\ FirstFavorite(mm.playbackConfig, SelectedItem(mm.playbackList).Name,
                              {"artist", "album", "playlist"}) # 0
          \/ /\ mm.panelMode = "playback" /\ msg.key = "r"
             /\ FirstFavorite(mm.playbackConfig, SelectedItem(mm.playbackList).Name,
                              {"artist"}) # 0
          \/ mm.panelMode = "plex-artists" /\ msg.key \in {"enter", "r"}
          \/ mm.panelMode \in {"plex-albums", "plex-playlists"} /\ msg.key = "enter"

\* the message is a transport or volume control
ControlsPlayback(mm, msg) ==
    /\ TakenAsCommand(mm, msg)
    /\ msg.key \in {"p", "n", "b", "+", "-", "h"}

NoPlayerStatus == "No Plexamp instance selected"

\* C6: with no player selected, every transport control, volume change,
\* shuffle toggle and playback trigger sends no request and reports that no
\* player is selected, in the status or in the result of the command it
\* returns.
C6_NoPlayerFailsExplicitly ==
    [][(m.selected = "" /\ (ControlsPlayback(m, lastMsg') \/ TriggersPlayback(m, lastMsg')))
          => /\ lastHttp' = {}
             /\ \A c \in lastCmds' : ~c.http
             /\ \/ m'.status = NoPlayerStatus
                \/ \E c \in lastCmds' : c.err = NoServerSelected]_vars

\* C7: triggering playback with no player selected returns one command, which
\* sends no request and resolves to a failure carrying "no server selected".
C7_TriggerWithoutPlayerFails ==
    [][(m.selected = "" /\ TriggersPlayback(m, lastMsg'))
          => /\ lastHttp' = {}
             /\ \E c \in lastCmds' :
                    /\ lastCmds' = {c}
                    /\ c.kind \in PlayKinds
                    /\ ~c.http
                    /\ \A msg \in PlaybackMsgs(c) : ~msg.success /\ msg.err = NoServerSelected]_vars

\* enter on an album with no player selected returned the failing command
C7_AlbumTriggeredWithoutPlayer ==
    /\ m.selected = ""
    /\ m.panelMode = "plex-albums"
    /\ lastMsg = [kind |-> "key", key |-> "enter"]
    /\ \E c \in lastCmds : c.kind = "playAlbum" /\ c.err = NoServerSelected

BrowseKeys == {"1", "2", "3", "6", "7"}

\* C8: without Plex authentication a browse shortcut leaves panelMode as it
\* is, sets the status to the authentication-required message and returns no
\* command.
C8_BrowseNeedsAuthentication ==
    [][(~m.plexAuthenticated /\ TakenAsCommand(m, lastMsg') /\ lastMsg'.key \in BrowseKeys)
          => /\ m'.panelMode = m.panelMode
             /\ m'.status = AuthRequired
             /\ lastCmds' = {}]_vars

\* the albums shortcut was pressed without authentication
C8_AlbumsShortcutRefused ==
    /\ ~m.plexAuthenticated
    /\ lastMsg = [kind |-> "key", key |-> "2"]
    /\ m.panelMode = "playback"
    /\ m.status = AuthRequired

\* C9: a server selection that returns no library switches to the playback
\* panel, reports that no libraries were found, and leaves the library id,
\* the library name and the known library list as they were.
C9_NoLibrariesKeepsLibraryFields ==
    [][(lastMsg'.kind = "serverSelect" /\ lastMsg'.success /\ lastMsg'.libraries = <<>>)
          => /\ m'.panelMode = "playback"
             /\ m'.status = "No libraries found on this server"
             /\ m'.config.PlexLibraryID = m.config.PlexLibraryID
             /\ m'.config.PlexLibraryName = m.config.PlexLibraryName
             /\ m'.config.PlexLibraries = m.config.PlexLibraries]_vars

\* C10: in every reachable state the selected library id and name are the
\* key and title of one member of config.PlexLibraries.
C10_SelectedLibraryIsKnown ==
    \E i \in 1..Len(m.config.PlexLibraries) :
        /\ m.config.PlexLibraries[i].Key = m.config.PlexLibraryID
        /\ m.config.PlexLibraries[i].Title = m.config.PlexLibraryName

\* C11: a successful server selection whose library list has at least one
\* entry, none of them titled as the configured library, makes the first
\* entry of the list the configured library: its title becomes
\* PlexLibraryName and its key PlexLibraryID.
C11_MissingLibraryFallsBackToFirst ==
    [][(/\ lastMsg'.kind = "serverSelect" /\ lastMsg'.success /\ lastMsg'.err = ""
        /\ Len(lastMsg'.libraries) >= 1
        /\ \A i \in 1..Len(lastMsg'.libraries) :
                lastMsg'.libraries[i].Title # m.config.PlexLibraryName)
          => /\ m'.config.PlexLibraryName = lastMsg'.libraries[1].Title
             /\ m'.config.PlexLibraryID = lastMsg'.libraries[1].Key]_vars

\* a server with the libraries Music and Jazz was selected while the config
\* named the library SELECT_LIBRARY (the settings file, whose write failed,
\* still names it), and Music became the configured library
C11_FirstLibraryTaken ==
    /\ lastMsg.kind = "serverSelect" /\ lastMsg.success
    /\ lastMsg.libraries = <<LibMusic1, LibJazz2>>
    /\ store.config.PlexLibraryName = LibDefault.Title
    /\ m.config.PlexLibraryName = LibMusic1.Title
    /\ m.config.PlexLibraryID = LibMusic1.Key

\* C12: every change the UI makes to the favorites (the edit form's add and
\* edit, the delete key, the favorite toggle of the artist list) is written
\* to the settings store: after the change, loading the favorites from the
\* store returns exactly the list the model holds.
C12_FavoritesChangeIsStored ==
    [][m'.playbackConfig # m.playbackConfig
          => LoadFavorites(store') = m'.playbackConfig]_vars

\* C13: whatever favorites the operator adds or edits (the edit form's add
\* and edit, the favorite toggle of the artist list), the favorites list never
\* holds two items with the same type and the same metadata key.
C13_NoDuplicateFavorites ==
    \A i, j \in 1..Len(m.playbackConfig) :
        (/\ m.playbackConfig[i].Type = m.playbackConfig[j].Type
         /\ m.playbackConfig[i].MetadataKey = m.playbackConfig[j].MetadataKey) => i = j

\* the rows of a table that have another (type, key) pair than item
OtherRows(rows, item) == SelectSeq(rows, LAMBDA r : ~SamePair(r, item))

\* C14: after two calls of FavoritesManager.Add with the same type and key
\* the table holds exactly one row for that pair, named as the second call
\* named it, and the rows of every other pair are as before the first call.
C14_AddTwiceKeepsOneRow ==
    (lastMsg.kind = "Add" /\ lastMsg.twice /\ lastMsg.err = "")
        => /\ Cardinality({i \in 1..Len(store.favorites) :
                                SamePair(store.favorites[i], lastMsg.item)}) = 1
           /\ \A i \in 1..Len(store.favorites) :
                SamePair(store.favorites[i], lastMsg.item)
                    => store.favorites[i].Name = lastMsg.item.Name
           /\ OtherRows(store.favorites, lastMsg.item) = OtherRows(lastMsg.before, lastMsg.item)

\* the second Add for artist 101 gave the name "y" to the row the first Add
\* had inserted as "x" into the empty table
C14_SecondAddRenamedRow ==
    /\ lastMsg.kind = "Add" /\ lastMsg.twice /\ lastMsg.err = ""
    /\ lastMsg.before = <<>>
    /\ lastMsg.item = [Name |-> "y", Type |-> "artist", MetadataKey |-> "101"]
    /\ store.favorites = <<[Name |-> "y", Type |-> "artist", MetadataKey |-> "101"]>>

C16_FailedSaveIsReported ==
    [][(/\ lastMsg'.kind \in {"key", "playerSelect", "serverSelect"}
        /\ Update(m, store, lastMsg', NoEnv).store # store')
          => /\ <<m'.status, m'.lastCommand>> #
                    <<Update(m, store, lastMsg', NoEnv).m.status,
                      Update(m, store, lastMsg', NoEnv).m.lastCommand>>
             /\ running'
             /\ m'.config = Update(m, store, lastMsg', NoEnv).m.config
             /\ m'.playbackConfig = Update(m, store, lastMsg', NoEnv).m.playbackConfig]_vars

\* the browse panel a fetch result belongs to
FetchedPanel(kind) ==
    CASE kind = "artistsFetched" -> "plex-artists"
      [] kind = "albumsFetched" -> "plex-albums"
      [] kind = "playlistsFetched" -> "plex-playlists"
      [] kind = "serversFetched" -> "plex-servers"
      [] OTHER -> "plex-players"

\* the list items the entities of a fetch result are converted to
FetchedItems(mm, msg) ==
    CASE msg.kind = "artistsFetched" -> ArtistItems(mm, msg.items)
      [] msg.kind = "albumsFetched" -> AlbumItems(msg.items)
      [] msg.kind = "playlistsFetched" -> PlaylistItems(msg.items)
      [] OTHER -> msg.items

\* the status a loaded list is announced with
LoadedStatus(msg) ==
    "Loaded " \o ToString(Len(msg.items)) \o " " \o
        SubSeq(FetchedPanel(msg.kind), 6, Len(FetchedPanel(msg.kind)))

\* C17: a successful fetch result delivered while its browse panel is shown
\* replaces the panel's list with the fetched entities, puts the selection on
\* the first item and sets the status to "Loaded N ..."; this also holds when
\* the list is in its filtering sub-mode, and then the filter text is kept.
C17_FetchedListReplacesContents ==
    [][(/\ lastMsg'.kind \in FetchedKinds /\ lastMsg'.err = ""
        /\ m.panelMode = FetchedPanel(lastMsg'.kind))
          => /\ ActiveList(m').items = FetchedItems(m, lastMsg')
             /\ ActiveList(m').cursor = 0
             /\ m'.status = LoadedStatus(lastMsg')
             /\ ActiveList(m).filterState = "filtering"
                    => ActiveList(m').filterValue = ActiveList(m).filterValue]_vars

\* the lists of the browse panels and of the favorites, with their cursors
Lists(mm) ==
    <<mm.playbackList, mm.artistList, mm.albumList, mm.playlistList, mm.serverList,
      mm.playerList>>

\* C18: a fetch result that carries an error, delivered while its browse
\* panel is shown, sets the status to the error text and leaves the lists,
\* their selections and the panel mode as they were.
C18_FetchErrorKeepsList ==
    [][(/\ lastMsg'.kind \in FetchedKinds /\ lastMsg'.err # ""
        /\ m.panelMode = FetchedPanel(lastMsg'.kind))
          => /\ m'.status = "Error fetching "
                                \o SubSeq(m.panelMode, 6, Len(m.panelMode))
                                \o ": " \o lastMsg'.err
             /\ Lists(m') = Lists(m)
             /\ m'.panelMode = m.panelMode]_vars

\* C19: while the list of the panel shown is in its filtering sub-mode, a key
\* event changes nothing but that list, which takes the key as list.Update
\* does: the panel mode stays, no playback, selection or fetch command is
\* returned, no request is sent and nothing is saved.
C19_FilteringTakesEveryKey ==
    [][(/\ lastMsg'.kind = "key"
        /\ m.panelMode # "edit"
        /\ ActiveList(m).filterState = "filtering")
          => /\ m'.panelMode = m.panelMode
             /\ lastCmds' = {}
             /\ lastHttp' = {}
             /\ store' = store
             /\ running'
             /\ m' = UpdateActiveList(m, lastMsg')]_vars

\* R was pressed while the player list was filtering: it went into the filter
\* text and no refresh was started
C19_RefreshKeyTypedIntoFilter ==
    /\ lastMsg = [kind |-> "key", key |-> "R"]
    /\ m.panelMode = "plex-players"
    /\ m.playerList.filterState = "filtering"
    /\ m.playerList.filterValue = "R"
    /\ lastCmds = {}

\* C20: every pollMsg leaves exactly one new tick armed and returns a new
\* timeline poll command, whether or not an earlier poll is still in flight.
C20_PollTickRearmsAndPolls ==
    [][lastMsg'.kind = "pollMsg"
          => /\ ticks' = 1
             /\ \E c \in lastCmds' : c.kind = "poll"]_vars

\* C21: a poll whose request, body read or XML decoding fails yields the
\* not-playing result (empty track, not playing, zero duration, position and
\* volume) tagged with the timelineRequestID captured when the poll was
\* issued, and handling a poll result never changes status, lastCommand or
\* panelMode.
C21_FailedPollIsNeutralAndSilent ==
    [][/\ \A c \in lastCmds' : c.kind = "poll" => c.reqID = m'.timelineRequestID
       /\ \A c \in inflight : \A resp \in PollResponses :
            (c.kind = "poll" /\ resp.err # "")
                => PollReply(c, resp) =
                     [kind |-> "trackMsgWithState", RequestID |-> c.reqID,
                      TrackText |-> "", IsPlaying |-> FALSE, Duration |-> 0,
                      Position |-> 0, Volume |-> 0, cmd |-> c]
       /\ lastMsg'.kind = "trackMsgWithState"
            => /\ lastMsg' \in PollMsgs(lastMsg'.cmd)
               /\ m'.status = m.status
               /\ m'.lastCommand = m.lastCommand
               /\ m'.panelMode = m.panelMode]_vars

\* the not-playing result of the current epoch was applied in a browse panel
\* while a status text was shown: the snapshot is neutral, the text is kept
C21_NeutralResultKeepsStatus ==
    /\ lastMsg.kind = "trackMsgWithState"
    /\ lastMsg.RequestID = m.timelineRequestID
    /\ m.timelineRequestID = MaxEpoch
    /\ Snapshot(m) = NeutralSnapshot
    /\ m.status # ""
    /\ m.panelMode # "playback"

\* C22: no detached task writes a field of the model: when a transport key
\* (play/pause, next, previous, shuffle) is handled with a player selected,
\* the status text is the one Update left, because the goroutine that sends
\* the request writes nothing.
C22_NoTaskWritesTheModel ==
    [][(/\ lastMsg'.kind = "key"
        /\ lastMsg'.key \in {"p", "n", "b", "h"}
        /\ m.panelMode = "playback"
        /\ m.playbackList.filterState # "filtering"
        /\ m.selected # "")
          => m'.status = m.status]_vars

\* C23: handling a successful serverSelectMsg never ends the event loop,
\* whatever library list the message carries, the list without entries
\* included.
C23_ServerSelectNeverAborts ==
    [][(lastMsg'.kind = "serverSelect" /\ lastMsg'.success) => running']_vars

\* the text the two strings.Replace calls of the last call were applied to
Rewritten ==
    IF lastMsg.kind = "SendPlaybackURL" /\ ~ApplyShuffle(lastMsg.fullURL, lastMsg.calls[1]).err
    THEN ApplyShuffle(lastMsg.fullURL, lastMsg.calls[1]).url
    ELSE lastMsg.fullURL

\* C24: for a target address A and any text S, rewriting
\* "https://listen.plex.tv" + S or "http://listen.plex.tv" + S yields exactly
\* "http://" + A + ":32500" + S.
C24_RewriteKeepsPathAndQuery ==
    (/\ lastMsg.kind \in {"SendPlaybackURL", "triggerPlayback"}
     /\ Rewritten[1] \in {plexListenBaseURL, plexListenPlainURL})
        => lastMsg.url = <<"http://" \o lastMsg.serverIP \o ":32500">> \o Tail(Rewritten)

\* C25: the rewrite touches the control-plane hostname only where it is the
\* scheme+host prefix of the URL: a URL of another host is requested as it
\* is, and whatever follows the scheme+host is requested unchanged.
C25_RewriteOnlyAtPrefix ==
    lastMsg.kind \in {"SendPlaybackURL", "triggerPlayback"}
        => /\ Len(lastMsg.url) = Len(Rewritten)
           /\ \A i \in 2..Len(Rewritten) : lastMsg.url[i] = Rewritten[i]
           /\ (\/ Rewritten[1] \notin {plexListenBaseURL, plexListenPlainURL}
               \/ Rewritten[2] = ".example.com") => lastMsg.url[1] = Rewritten[1]

\* the pairs of the query of a URL text, the shuffle pairs left out
OtherPairs(urlStr) ==
    SelectSeq(SplitQuery(Parse(urlStr).RawQuery),
              LAMBDA pair : pair = <<>> \/ pair[1] # "shuffle=")

\* C26: the URL SendPlaybackURL requests for a URL of the builder has the
\* builder's path and the builder's query parameters with the same values in
\* the same order; besides scheme+host only the shuffle parameter differs.
C26_RequestKeepsBuilderQueryOrder ==
    (/\ lastMsg.kind = "SendPlaybackURL"
     /\ lastMsg.fullURL \in {BuildPlaylistURL, BuildPlayQueueURL, BuildArtistRadioURL})
        => /\ Tail(Parse(lastMsg.url).head) = Tail(Parse(lastMsg.fullURL).head)
           /\ OtherPairs(lastMsg.url) = OtherPairs(lastMsg.fullURL)

C28_ShuffleOnIsIdempotent ==
    (/\ lastMsg.kind = "ApplyShuffle"
     /\ \A i \in 1..Len(lastMsg.calls) : lastMsg.calls[i]
     /\ ~Parse(lastMsg.fullURL).err)
        => /\ Cardinality({i \in 1..Len(lastMsg.url) : lastMsg.url[i] = "shuffle="}) = 1
           /\ \A i \in 1..Len(lastMsg.url) :
                lastMsg.url[i] = "shuffle="
                    => /\ i < Len(lastMsg.url)
                       /\ lastMsg.url[i + 1] = "1"
                       /\ i + 1 < Len(lastMsg.url) => lastMsg.url[i + 2] = "&"
           /\ Query(Parse(lastMsg.url).RawQuery)[ShuffleKey] = << <<"1">> >>

\* shuffle was set three times in a row on a URL that carried shuffle=0 and
\* shuffle=1: the result has the one pair shuffle=1
C28_SetThreeTimesOnePair ==
    /\ lastMsg.kind = "ApplyShuffle"
    /\ lastMsg.calls = <<TRUE, TRUE, TRUE>>
    /\ lastMsg.fullURL = <<plexListenBaseURL, "/player/playback/playMedia", "?",
                           "shuffle=", "0", "&", "x=", "1", "&", "shuffle=", "1">>
    /\ lastMsg.url = <<plexListenBaseURL, "/player/playback/playMedia", "?",
                       "shuffle=", "1", "&", "x=", "1">>

\* C29: every write of a settings file is atomic: when the process is
\* interrupted during a save, the file holds the complete previous contents
\* or the complete new contents, never a part and never nothing.
C29_SavesAreAtomic ==
    (~running /\ lastMsg.kind # "idle")
        => IF lastMsg.path = "config"
           THEN store.config \in {lastMsg.before, lastMsg.data}
           ELSE store.favorites \in {lastMsg.before, lastMsg.data}

\* C30: a successful player selection sets the configuration's selected
\* player address and name and the active player m.selected to the chosen
\* player, saves the configuration (the file holds it unless the write
\* failed) and sets panelMode to playback; in every reachable state
\* m.selected equals config.SelectedPlayer.
C30_PlayerSelectionSetsActivePlayer ==
    [][/\ m.selected = m.config.SelectedPlayer
       /\ m'.selected = m'.config.SelectedPlayer
       /\ (lastMsg'.kind = "playerSelect" /\ lastMsg'.success)
            => /\ m'.config.SelectedPlayer = lastMsg'.player.address
               /\ m'.config.SelectedPlayerName = lastMsg'.player.title
               /\ m'.selected = lastMsg'.player.address
               /\ m'.panelMode = "playback"
               /\ store'.config = m'.config \/ store' = store]_vars

\* the player at 192.168.1.50 was selected while another one was active: it
\* is the active player, in the model's configuration and in the file
C30_OtherPlayerSelected ==
    /\ lastMsg.kind = "playerSelect"
    /\ lastMsg.success
    /\ lastMsg.cmd.selected # "192.168.1.50"
    /\ m.selected = "192.168.1.50"
    /\ m.config.SelectedPlayer = "192.168.1.50"
    /\ m.config.SelectedPlayerName = "Den"
    /\ store.config.SelectedPlayer = "192.168.1.50"
    /\ m.panelMode = "playback"

C32_LateSelectionKeepsPanel ==
    [][m.plexAuthenticated =>
        /\ (lastMsg'.kind = "serverSelect" /\ m.panelMode # "plex-servers")
                => m'.panelMode = m.panelMode
        /\ (lastMsg'.kind = "playerSelect" /\ m.panelMode # "plex-players")
                => m'.panelMode = m.panelMode]_vars

\* C33: when several fetches for a browse panel are in flight, the list
\* finally shown is the result of the fetch issued last, for the library
\* selected now: once no fetch for the panel is in flight any more, the fetch
\* result that replaced the list of the artists, albums or playlists panel
\* last was fetched for the library the configuration holds.
C33_ShownListIsOfSelectedLibrary ==
    [][(/\ lastMsg'.kind \in {"artistsFetched", "albumsFetched", "playlistsFetched"}
        /\ lastMsg'.err = ""
        /\ m.panelMode = FetchedPanel(lastMsg'.kind)
        /\ ActiveList(m').items = FetchedItems(m, lastMsg')
        /\ m'.status = LoadedStatus(lastMsg')
        /\ \A c \in inflight' : c.kind \notin FetchKinds)
          => lastMsg'.cmd.lib = m'.config.PlexLibraryID]_vars

\* C34: when the operator selects the server Attic and then the server Barn
\* before Attic's libraries have been fetched, the connection finally holds
\* Barn's identifier, address, name and libraries, in whatever order the two
\* results arrive.  (The cursor only moves down the list, so Barn, under the
\* cursor, was selected after Attic; the connection holds Barn's values
\* because Barn's result has been handled.)
C34_LastSelectedServerWins ==
    [][(/\ lastMsg'.kind = "serverSelect" /\ lastMsg'.success
        /\ lastMsg'.server = SrvA
        /\ SelectedItem(m.serverList) = SrvB
        /\ m.config.ServerID = SrvB.clientIdentifier)
          => /\ m'.config.ServerID = SrvB.clientIdentifier
             /\ m'.config.PlexServerAddr = SrvB.address \o ":" \o SrvB.port
             /\ m'.config.PlexServerName = SrvB.title
             /\ m'.config.PlexLibraries = m.config.PlexLibraries]_vars

\* C35: Enter in a browse panel returns a playback or selection command only
\* for an entity a completed fetch delivered, never for the "Loading ..."
\* placeholder (which has no rating key, identifier or address), and a player
\* selection never sets the active player address to the empty string.
C35_PlaceholderNeverSelected ==
    [][/\ \A c \in lastCmds' :
            /\ c.kind \in {"selectServer", "selectPlayer"} => c.item.clientIdentifier # ""
            /\ c.kind \in {"playArtist", "playAlbum", "playPlaylist"} => c.key # ""
       /\ lastMsg'.kind = "playerSelect"
            => /\ m'.selected # ""
               /\ m'.config.SelectedPlayer # ""]_vars

\* C36: 'f' on an artist that is a favorite removes exactly the favorite
\* whose key is the artist's ratingKey and leaves every other favorite as it
\* was.  (The second of two presses of 'f' on an artist that was no favorite
\* is such a press: it has to take the favorite the first press added away.)
C36_FavoriteOfArtistRemoved ==
    [][(/\ lastMsg'.kind = "key" /\ lastMsg'.key = "f"
        /\ m.panelMode = "plex-artists"
        /\ m.artistList.filterState # "filtering"
        /\ SelectedItem(m.artistList) # Nil
        /\ SelectedItem(m.artistList).ratingKey \in getCurrentFavSet(m))
          => m'.playbackConfig =
                SelectSeq(m.playbackConfig,
                          LAMBDA r : r.MetadataKey # SelectedItem(m.artistList).ratingKey)]_vars

\* C37: after every handled message the connection configuration in memory
\* equals the configuration in the settings file, writes succeeding: from a
\* state where the two are equal, the handler leaves in memory what its
\* successful write leaves in the file.
C37_ConfigInMemoryIsSaved ==
    [][m.config = store.config
        => m'.config = Update(m, store, lastMsg', NoEnv).store.config]_vars

\* C38: after a transport command has set the snapshot optimistically
\* (togglePlayback flips isPlaying, adjustVolume sets volume), the result of
\* a poll issued before the command is not applied over the optimistic value:
\* handling any result of a poll that was in flight when the key was pressed
\* leaves isPlaying and volume as the command set them.
C38_OlderPollKeepsOptimisticValue ==
    [][(/\ lastMsg'.kind = "key"
        /\ lastMsg'.key \in {"p", "+", "-"}
        /\ m'.isPlaying # m.isPlaying \/ m'.volume # m.volume)
          => \A c \in inflight : c.kind = "poll" =>
                \A msg \in PollMsgs(c) :
                    /\ Update(m', store', msg, NoEnv).m.isPlaying = m'.isPlaying
                    /\ Update(m', store', msg, NoEnv).m.volume = m'.volume]_vars

\* C39: at every point of a run exactly one poll tick is pending: Init arms
\* one, a pollMsg consumes one and its handler arms one, and no other
\* message arms or cancels a tick.
C39_OneTickPending ==
    /\ ticks = 1
    /\ Update(m, store, [kind |-> "pollMsg"], NoEnv).tick = 1

\* a tick fired after a key was handled, and one tick is pending again
C39_TickRearmedAfterKey ==
    /\ lastMsg.kind = "pollMsg"
    /\ nKeys > 0
    /\ ticks = 1

\* cycleLibrary called n times in a row
RECURSIVE CycleTimes(_, _, _)
CycleTimes(mm, st, n) ==
    IF n = 0 THEN mm ELSE CycleTimes(cycleLibrary(mm, st, TRUE).m, st, n - 1)

\* C40: Tab moves the selected library to the entry after it in
\* config.PlexLibraries, from the last entry to the first, sets library id
\* and name together and saves the configuration (the file holds it unless
\* the write failed); when the selected library's id is not in the list
\* nothing changes; with N libraries of distinct keys, N cycles in a row
\* come back to the starting library.
C40_CycleLibraryMovesToNext ==
    [][LET libs == m.config.PlexLibraries
           N == Len(libs)
           known == \E i \in 1..N : libs[i].Key = m.config.PlexLibraryID
           distinct == \A i, j \in 1..N : libs[i].Key = libs[j].Key => i = j
       IN /\ (known /\ distinct)
                => CycleTimes(m, store, N).config.PlexLibraryID = m.config.PlexLibraryID
          /\ (lastMsg'.kind = "key" /\ lastMsg'.key = "tab")
                => IF known
                   THEN /\ \E i \in 1..N :
                            /\ libs[i].Key = m.config.PlexLibraryID
                            /\ m'.config.PlexLibraryID = libs[(i % N) + 1].Key
                            /\ m'.config.PlexLibraryName = libs[(i % N) + 1].Title
                        /\ m'.config = [m.config EXCEPT
                                            !.PlexLibraryID = m'.config.PlexLibraryID,
                                            !.PlexLibraryName = m'.config.PlexLibraryName]
                        /\ store'.config = m'.config \/ store' = store
                   ELSE m' = m /\ store' = store /\ lastCmds' = {}]_vars

\* Tab was pressed on the last of three libraries: the first is selected,
\* by id and by name, and saved
C40_WrappedToFirstLibrary ==
    /\ lastMsg.kind = "key"
    /\ lastMsg.key = "tab"
    /\ nKeys = 3
    /\ m.config.PlexLibraries = <<LibJazz2, LibMusic3, LibMusic1>>
    /\ m.config.PlexLibraryID = "2"
    /\ m.config.PlexLibraryName = "Jazz"
    /\ store.config = m.config

====
